---- MODULE Spec2Model ----
(***************************************************************************)
(* Model of the router of github.com/xs23933/web: route registration       *)
(* (Core.Use, Core.buildHands, Core.pushMethod), route matching            *)
(* (Route.matchRoute), the pooled request context (assignCtx, releaseCtx)  *)
(* and the dispatch loop (Core.handler, Core.nextRoute, Ctx.Next).         *)
(*                                                                         *)
(* A Go string is modelled as a sequence of one-character strings, so      *)
(* that lower-casing, trimming, splitting and prefix tests are computed.   *)
(* The empty sequence stands for the empty string and for a nil slice.     *)
(***************************************************************************)
EXTENDS Integers, Sequences, FiniteSets, TLC

(***************************************************************************)
(* Bounds of the model.                                                    *)
(***************************************************************************)
MaxRoutes == 4
MaxNextCalls == 2
MaxErrCalls == 1
MaxCtx == 2
MaxObjects == 2
MaxUses == 2

(***************************************************************************)
(* Strings.                                                                *)
(***************************************************************************)
LowerAlpha == <<"a","b","c","d","e","f","g","h","i","j","k","l","m",
                "n","o","p","q","r","s","t","u","v","w","x","y","z">>
UpperAlpha == <<"A","B","C","D","E","F","G","H","I","J","K","L","M",
                "N","O","P","Q","R","S","T","U","V","W","X","Y","Z">>
Digits == {"0","1","2","3","4","5","6","7","8","9"}

IsUpper(c) == \E i \in DOMAIN UpperAlpha : UpperAlpha[i] = c
IsDigit(c) == c \in Digits

ToLowerC(c) ==
  IF IsUpper(c) THEN LowerAlpha[CHOOSE i \in DOMAIN UpperAlpha : UpperAlpha[i] = c]
  ELSE c

\* strings.ToLower
ToLower(s) == [i \in 1..Len(s) |-> ToLowerC(s[i])]

\* strings.ToLower(x) followed by strings.Title on an all-upper-case word
TitleWord(s) == [i \in 1..Len(s) |-> IF i = 1 THEN s[i] ELSE ToLowerC(s[i])]

\* Variant of HasPrefix: only the whole string counts as its prefix.
HasPrefix_whole(s, p) == s = p

\* strings.HasPrefix
HasPrefix(s, p) == Len(p) <= Len(s) /\ SubSeq(s, 1, Len(p)) = p

\* does p occur in s at position i (1-based)
OccursAt(s, i, p) == i + Len(p) - 1 <= Len(s) /\ SubSeq(s, i, i + Len(p) - 1) = p

\* strings.Contains for a one-character needle
ContainsC(s, c) == \E i \in 1..Len(s) : s[i] = c

RECURSIVE TrimRight(_, _)
\* strings.TrimRight(s, cutset)
TrimRight(s, cut) ==
  IF Len(s) > 0 /\ s[Len(s)] \in cut THEN TrimRight(SubSeq(s, 1, Len(s) - 1), cut) ELSE s

RECURSIVE TrimLeft(_, _)
\* strings.TrimLeft(s, cutset): strips every leading character that is in the cutset
TrimLeft(s, cut) ==
  IF Len(s) > 0 /\ s[1] \in cut THEN TrimLeft(Tail(s), cut) ELSE s

CharsOf(s) == {s[i] : i \in 1..Len(s)}

RECURSIVE SplitFrom(_, _, _)
SplitFrom(s, i, cur) ==
  IF i > Len(s) THEN <<cur>>
  ELSE IF s[i] = "/" THEN <<cur>> \o SplitFrom(s, i + 1, <<>>)
  ELSE SplitFrom(s, i + 1, Append(cur, s[i]))

\* strings.Split(s, "/")
Split(s) == SplitFrom(s, 1, <<>>)

RECURSIVE JoinSlash(_)
\* strings.Join(segs, "/")
JoinSlash(segs) ==
  IF Len(segs) = 0 THEN <<>>
  ELSE IF Len(segs) = 1 THEN segs[1]
  ELSE segs[1] \o <<"/">> \o JoinSlash(Tail(segs))

RECURSIVE ReplaceFrom(_, _, _)
\* strings.NewReplacer(pairs...).Replace(s): at each position the first listed
\* old string that occurs there is replaced; matches do not overlap.
ReplaceFrom(pairs, s, i) ==
  IF i > Len(s) THEN <<>>
  ELSE LET hits == {k \in DOMAIN pairs : OccursAt(s, i, pairs[k][1])}
       IN IF hits = {} THEN <<s[i]>> \o ReplaceFrom(pairs, s, i + 1)
          ELSE LET k == CHOOSE x \in hits : \A y \in hits : x <= y
               IN pairs[k][2] \o ReplaceFrom(pairs, s, i + Len(pairs[k][1]))

Replace(pairs, s) == ReplaceFrom(pairs, s, 1)

SetMin(S) == CHOOSE x \in S : \A y \in S : x <= y
SetMax(S) == CHOOSE x \in S : \A y \in S : x >= y

(***************************************************************************)
(* Path patterns: getParams and getRegex.                                  *)
(***************************************************************************)
RECURSIVE getParamsFrom(_, _)
getParamsFrom(segments, i) ==
  IF i > Len(segments) THEN <<>>
  ELSE LET s == segments[i]
           named == IF s # <<>> /\ s[1] = ":"
                    THEN <<Replace(<< <<<<":">>, <<>>>>, <<<<"?">>, <<>>>> >>, s)>>
                    ELSE <<>>
           star == IF s # <<>> /\ ContainsC(s, "*") THEN << <<"*">> >> ELSE <<>>
       IN named \o star \o getParamsFrom(segments, i + 1)

\* Variant of getParams: no parameter is recognised.
getParams_none(path) == <<>>

\* getParams(path): the parameter names of a route path, left to right
getParams(path) ==
  IF Len(path) < 1 THEN <<>> ELSE getParamsFrom(Split(path), 1)

RECURSIVE getRegexFrom(_, _)
getRegexFrom(segments, i) ==
  IF i > Len(segments) THEN <<>>
  ELSE LET s == segments[i]
           e == IF s = <<>> THEN <<>>
                ELSE IF s[1] = ":"
                     THEN IF ContainsC(s, "?") THEN <<[k |-> "opt", s |-> <<>>]>>
                          ELSE <<[k |-> "req", s |-> <<>>]>>
                ELSE IF s[1] = "*" THEN <<[k |-> "star", s |-> <<>>]>>
                ELSE <<[k |-> "lit", s |-> s]>>
       IN e \o getRegexFrom(segments, i + 1)

\* Variant of getRegex: an optional parameter is compiled as a required one.
getRegex_allRequired(path) ==
  LET re == getRegexFrom(Split(path), 1)
  IN [i \in DOMAIN re |-> IF re[i].k = "opt" THEN [re[i] EXCEPT !.k = "req"] ELSE re[i]]

\* getRegex(path): the pattern "^" e1 e2 ... "/?$" as the list of its elements:
\*   lit  "/" s          req  "/(?:([^/]+?))"
\*   opt  "(?:/([^/]+?))?"   star "/(.*)"
\* Literal segments of the model hold letters and digits only, which the
\* regular expression matches as themselves.
getRegex(path) == getRegexFrom(Split(path), 1)

\* number of capturing groups of a compiled pattern
NumGroups(re) == Cardinality({i \in DOMAIN re : re[i].k # "lit"})

NoMatch == [ok |-> FALSE, groups |-> <<>>]

RECURSIVE ReFrom(_, _, _, _)
\* Leftmost-first match of the elements k.. of the pattern against s from pos,
\* up to the closing "/?$"; groups are the captured texts, the empty string for
\* an optional group that took no part in the match.
ReFrom(re, k, s, pos) ==
  IF k > Len(re)
  THEN IF pos = Len(s) + 1 \/ (pos = Len(s) /\ s[pos] = "/")
       THEN [ok |-> TRUE, groups |-> <<>>] ELSE NoMatch
  ELSE LET e == re[k]
           slash == pos <= Len(s) /\ s[pos] = "/"
           \* "/" followed by a shortest run of one or more non-slash characters
           lens == {n \in 1..(Len(s) - pos) :
                      /\ \A j \in (pos + 1)..(pos + n) : s[j] # "/"
                      /\ ReFrom(re, k + 1, s, pos + 1 + n).ok}
           one == IF slash /\ lens # {}
                  THEN LET n == SetMin(lens)
                       IN [ok |-> TRUE,
                           groups |-> <<SubSeq(s, pos + 1, pos + n)>>
                                      \o ReFrom(re, k + 1, s, pos + 1 + n).groups]
                  ELSE NoMatch
       IN CASE e.k = "lit" ->
                 IF OccursAt(s, pos, <<"/">> \o e.s)
                 THEN ReFrom(re, k + 1, s, pos + 1 + Len(e.s)) ELSE NoMatch
            [] e.k = "req" -> one
            [] e.k = "opt" ->
                 IF one.ok THEN one
                 ELSE LET r == ReFrom(re, k + 1, s, pos)
                      IN IF r.ok THEN [ok |-> TRUE, groups |-> << <<>> >> \o r.groups]
                         ELSE NoMatch
            [] e.k = "star" ->
                 LET all == {n \in 0..(Len(s) - pos) : ReFrom(re, k + 1, s, pos + 1 + n).ok}
                 IN IF slash /\ all # {}
                    THEN LET n == SetMax(all)
                         IN [ok |-> TRUE,
                             groups |-> <<SubSeq(s, pos + 1, pos + n)>>
                                        \o ReFrom(re, k + 1, s, pos + 1 + n).groups]
                    ELSE NoMatch

\* Variant of ReMatch: the captured texts come in reverse order.
ReMatch_reversed(re, s) ==
  LET m == ReFrom(re, 1, s, 1)
  IN [ok |-> m.ok, groups |-> [i \in DOMAIN m.groups |-> m.groups[Len(m.groups) + 1 - i]]]

\* Regexp.MatchString and Regexp.FindAllStringSubmatch(path, -1)[0][1:]
ReMatch(re, s) == ReFrom(re, 1, s, 1)

(***************************************************************************)
(* Route.matchRoute.                                                       *)
(***************************************************************************)
Matched(values) == [match |-> TRUE, values |-> values]
Unmatched == [match |-> FALSE, values |-> <<>>]

matchRoute(r, method, path) ==
  IF r.isMiddleware
  THEN IF r.isStar \/ r.isSlash THEN Matched(<<>>)
       ELSE IF HasPrefix(path, r.Path) THEN Matched(<<>>)
       ELSE Unmatched
  ELSE IF r.Method = method \/ r.Method = "*" \/ (r.isGet /\ method = "HEAD")
       THEN IF r.isStar THEN Matched(<<>>)
            ELSE IF r.isSlash /\ path = <<"/">> THEN Matched(<<>>)
            ELSE IF r.isRegex /\ ReMatch(r.Regexp, path).ok
                 THEN IF Len(r.Params) > 0
                      THEN IF NumGroups(r.Regexp) > 0
                           THEN Matched(ReMatch(r.Regexp, path).groups)
                           ELSE Unmatched
                      ELSE Matched(<<>>)
            ELSE IF r.Path = path THEN Matched(<<>>)
            ELSE Unmatched
       ELSE Unmatched

(***************************************************************************)
(* Auto-registration names: toNamer, path.Join and fixURI.                 *)
(***************************************************************************)
commonInitialisms == <<
    <<"A","P","I">>, <<"A","S","C","I","I">>, <<"C","P","U">>,
    <<"C","S","S">>, <<"D","N","S">>, <<"E","O","F">>,
    <<"G","U","I","D">>, <<"H","T","M","L">>, <<"H","T","T","P">>,
    <<"H","T","T","P","S">>, <<"I","D">>, <<"I","P">>,
    <<"J","S","O","N">>, <<"L","H","S">>, <<"Q","P","S">>,
    <<"R","A","M">>, <<"R","H","S">>, <<"R","P","C">>,
    <<"S","L","A">>, <<"S","M","T","P">>, <<"S","S","H">>,
    <<"T","L","S">>, <<"T","T","L">>, <<"U","I","D">>,
    <<"U","I">>, <<"U","U","I","D">>, <<"U","R","I">>,
    <<"U","R","L">>, <<"U","T","F","8">>, <<"V","M">>,
    <<"X","M","L">>, <<"X","S","R","F">>, <<"X","S","S">> >>

commonInitialismsReplacer ==
  [i \in DOMAIN commonInitialisms |->
     <<commonInitialisms[i], TitleWord(commonInitialisms[i])>>]

RECURSIVE toNamerLoop(_, _, _, _)
\* the loop of toNamer over value[:len(value)-1]; i is 0-based as in the source
toNamerLoop(value, i, lastCase, currCase) ==
  IF i > Len(value) - 2 THEN <<>>
  ELSE LET v == value[i + 1]
           nextCase == IsUpper(value[i + 2])
           nextNumber == IsDigit(value[i + 2])
           out == IF i > 0
                  THEN IF currCase
                       THEN IF lastCase /\ (nextCase \/ nextNumber) THEN <<v>>
                            ELSE IF value[i] # "/" /\ value[i + 2] # "/"
                                 THEN <<"/", v>> ELSE <<v>>
                       ELSE IF i = Len(value) - 2 /\ nextCase /\ ~nextNumber
                            THEN <<v, "/">> ELSE <<v>>
                  ELSE <<v>>
           curr == IF i > 0 THEN currCase ELSE TRUE
       IN out \o toNamerLoop(value, i + 1, curr, nextCase)

toNamerReps == << << <<"_">>, <<"/",":">> >>,
                 << <<"p","a","r","a","m","s">>, <<":","p","a","r","a","m","?">> >>,
                 << <<"p","a","r","a","m">>, <<":","p","a","r","a","m">> >> >>

\* Variant of toNamer: the name is lower-cased and nothing else.
toNamer_flat(name) == ToLower(name)

\* toNamer(name): the lower-case, slash-separated form of an operation name
toNamer(name) ==
  IF name = <<>> THEN <<>>
  ELSE LET value == Replace(commonInitialismsReplacer, name)
           buf == toNamerLoop(value, 0, FALSE, FALSE) \o <<value[Len(value)]>>
       IN Replace(toNamerReps, ToLower(buf))

RECURSIVE CleanSegs(_, _, _, _)
\* path.Clean over the "/"-separated elements: "" and "." are dropped and ".."
\* removes the element before it
CleanSegs(segs, i, rooted, out) ==
  IF i > Len(segs) THEN out
  ELSE LET s == segs[i]
       IN IF s = <<>> \/ s = <<".">> THEN CleanSegs(segs, i + 1, rooted, out)
          ELSE IF s = <<".", ".">>
               THEN IF Len(out) > 0 /\ out[Len(out)] # <<".", ".">>
                    THEN CleanSegs(segs, i + 1, rooted, SubSeq(out, 1, Len(out) - 1))
                    ELSE IF rooted THEN CleanSegs(segs, i + 1, rooted, out)
                    ELSE CleanSegs(segs, i + 1, rooted, Append(out, s))
          ELSE CleanSegs(segs, i + 1, rooted, Append(out, s))

\* path.Clean
Clean(p) ==
  IF p = <<>> THEN <<".">>
  ELSE LET rooted == p[1] = "/"
           body == JoinSlash(CleanSegs(Split(p), 1, rooted, <<>>))
       IN IF rooted THEN <<"/">> \o body
          ELSE IF body = <<>> THEN <<".">> ELSE body

\* path.Join(a, b)
Join(a, b) ==
  IF a = <<>> /\ b = <<>> THEN <<>>
  ELSE IF a = <<>> THEN Clean(b)
  ELSE Clean(a \o <<"/">> \o b)

\* Variant of fixURI: the verb token is not stripped from the name.
fixURI_keepVerb(pre, src, tag) == Join(pre, src)

\* fixURI(pre, src, tag)
fixURI(pre, src, tag) ==
  LET uri == Join(pre, TrimLeft(src, CharsOf(tag)))
  IN IF Len(uri) = 0 THEN <<"/">> ELSE uri

(***************************************************************************)
(* Registration: Core.pushMethod, Core.buildHands, Core.Use.               *)
(* A registration runs on st = [routes, fatal, objs]; fatal records        *)
(* log.Fatalf, after which the process has exited and nothing more is      *)
(* registered; objs holds the handler objects of the application.          *)
(***************************************************************************)
S_slash == <<"/">>
S_api == <<"/","a","p","i">>
S_check == <<"/","c","h","e","c","k">>
S_param == <<"p","a","r","a","m">>

NewRoute(method, path, isGet, isMiddleware, isStar, isSlash, isRegex, params, re, h) ==
  [isGet |-> isGet, isMiddleware |-> isMiddleware, isStar |-> isStar,
   isSlash |-> isSlash, isRegex |-> isRegex, Method |-> method, Path |-> path,
   Params |-> params, Regexp |-> re, Handler |-> h]

\* Variant of NormPath: the case of the path is kept.
NormPath_keepCase(p) == IF Len(p) > 1 THEN TrimRight(p, {"/"}) ELSE p

\* the lower-casing and trailing-slash trim shared by pushMethod and Core.handler
NormPath(p) ==
  LET l == ToLower(p) IN IF Len(l) > 1 THEN TrimRight(l, {"/"}) ELSE l

pushMethod(st, method, path0, handlers) ==
  IF st.fatal THEN st
  ELSE IF Len(handlers) = 0 THEN [st EXCEPT !.fatal = TRUE]
  ELSE LET p1 == IF path0 = <<>> THEN S_slash ELSE path0
           original == IF p1[1] # "/" THEN S_slash \o p1 ELSE p1
           path == NormPath(original)
           isGet == method = "GET"
           isMiddleware == method = "USE"
           meth == IF isMiddleware \/ method = "ALL" THEN "*" ELSE method
           isStar == path = <<"*">> \/ path = <<"/","*">> \/ (isMiddleware /\ path = S_slash)
           isSlash == path = S_slash
           Params == getParams(original)
           isRegex == Len(Params) > 0
           Regexp == IF isRegex THEN getRegex(path) ELSE <<>>
       IN [st EXCEPT !.routes = st.routes \o
             [i \in 1..Len(handlers) |->
                NewRoute(meth, path, isGet, isMiddleware, isStar, isSlash, isRegex,
                         Params, Regexp, handlers[i])]]

\* The values stored in Route.Handler.
Fn(name) == [kind |-> "fn", obj |-> "", name |-> name]
PreloadOf(h) == [kind |-> "Preload", obj |-> h, name |-> "Preload"]
OpOf(h, name) == [kind |-> "op", obj |-> h, name |-> name]
CheckFn == [kind |-> "check", obj |-> "", name |-> "check"]

\* The methods a handler object shows to reflection, sorted by name as
\* reflect.Type.Method lists them; ctxFn: the method has type func(*Ctx).
M_Get == [label |-> "Get", name |-> <<"G","e","t">>, ctxFn |-> TRUE]
M_Init == [label |-> "Init", name |-> <<"I","n","i","t">>, ctxFn |-> FALSE]
M_PostParam == [label |-> "PostParam", name |-> <<"P","o","s","t","P","a","r","a","m">>, ctxFn |-> TRUE]
M_Prefix == [label |-> "Prefix", name |-> <<"P","r","e","f","i","x">>, ctxFn |-> FALSE]
M_Preload == [label |-> "Preload", name |-> <<"P","r","e","l","o","a","d">>, ctxFn |-> TRUE]
M_SetPrefix == [label |-> "SetPrefix", name |-> <<"S","e","t","P","r","e","f","i","x">>, ctxFn |-> FALSE]

\* a method of type func(*Ctx) that the application wrote
Op(label, name) == [label |-> label, name |-> name, ctxFn |-> TRUE]
\* The methods of an object with one operation besides those of web.Handler,
\* in the order of their names as reflection lists them: an operation in A, D,
\* G or H comes before Init, one in Pa or Po between Init and Prefix, any
\* other of the model (Pu) between Preload and SetPrefix.
MethodsWith(op) ==
  IF op.name[1] \in {"A", "D", "G", "H"}
  THEN <<op, M_Init, M_Prefix, M_Preload, M_SetPrefix>>
  ELSE IF op.name[1] = "P" /\ op.name[2] \in {"a", "o"}
       THEN <<M_Init, op, M_Prefix, M_Preload, M_SetPrefix>>
       ELSE <<M_Init, M_Prefix, M_Preload, op, M_SetPrefix>>
OneOp(prefix, label, name) ==
  [prefix |-> prefix, preload |-> "default", methods |-> MethodsWith(Op(label, name))]

\* Handler objects (types embedding web.Handler) of the model:
\*   api   the example's Handler with the operations Get and PostParam: Init
\*         sets prefix /api, Preload is Handler.Preload
\*   gate  prefix /api, Preload overridden by user code
\*   byid  prefix /:id, Preload is Handler.Preload
\* and objects with a single operation:
\*   root   prefix "", Get
\*   users  prefix "/api", GetUserInfo
\*   req    prefix "", PostParam
\*   opt    prefix "", PutParams
\*   getter prefix "/api", Getter
\*   items  prefix "/v1/", DeleteItem
\*   bare   prefix "api", AllItems
\*   ids    prefix "/api", GetUserID
\*   opts   prefix "/api", PutParams
\*   any    prefix "/api", All
\*   files  prefix "/f/*", Get
\*   star   prefix "/*", Get
\*   pair   prefix "/:id", PostParam
\*   twin   prefix "/:param", PostParam
\*   rest   prefix "/:id*", Get
\* and an object with an operation for every verb and two more methods:
\*   full   prefix "/v1"; All, DeleteItem, Get, HeadInfo, PatchItem,
\*          PostParam and PutParams; Index, of type func(*Ctx), and GetName,
\*          of type func() string
FullMethods ==
  <<Op("All", <<"A","l","l">>),
    Op("DeleteItem", <<"D","e","l","e","t","e","I","t","e","m">>),
    M_Get,
    [label |-> "GetName", name |-> <<"G","e","t","N","a","m","e">>, ctxFn |-> FALSE],
    Op("HeadInfo", <<"H","e","a","d","I","n","f","o">>),
    Op("Index", <<"I","n","d","e","x">>),
    M_Init,
    Op("PatchItem", <<"P","a","t","c","h","I","t","e","m">>),
    M_PostParam, M_Prefix, M_Preload,
    Op("PutParams", <<"P","u","t","P","a","r","a","m","s">>),
    M_SetPrefix>>
Hands ==
  [api  |-> [prefix |-> S_api, preload |-> "default",
             methods |-> <<M_Get, M_Init, M_PostParam, M_Prefix, M_Preload, M_SetPrefix>>],
   gate |-> [prefix |-> S_api, preload |-> "custom",
             methods |-> <<M_Get, M_Init, M_Prefix, M_Preload, M_SetPrefix>>],
   byid |-> [prefix |-> <<"/",":","i","d">>, preload |-> "default",
             methods |-> <<M_Get, M_Init, M_Prefix, M_Preload, M_SetPrefix>>],
   root |-> OneOp(<<>>, "Get", <<"G","e","t">>),
   users |-> OneOp(<<"/","a","p","i">>, "GetUserInfo", <<"G","e","t","U","s","e","r","I","n","f","o">>),
   req |-> OneOp(<<>>, "PostParam", <<"P","o","s","t","P","a","r","a","m">>),
   opt |-> OneOp(<<>>, "PutParams", <<"P","u","t","P","a","r","a","m","s">>),
   getter |-> OneOp(<<"/","a","p","i">>, "Getter", <<"G","e","t","t","e","r">>),
   items |-> OneOp(<<"/","v","1","/">>, "DeleteItem", <<"D","e","l","e","t","e","I","t","e","m">>),
   bare |-> OneOp(<<"a","p","i">>, "AllItems", <<"A","l","l","I","t","e","m","s">>),
   ids |-> OneOp(<<"/","a","p","i">>, "GetUserID", <<"G","e","t","U","s","e","r","I","D">>),
   opts |-> OneOp(<<"/","a","p","i">>, "PutParams", <<"P","u","t","P","a","r","a","m","s">>),
   any |-> OneOp(<<"/","a","p","i">>, "All", <<"A","l","l">>),
   files |-> OneOp(<<"/","f","/","*">>, "Get", <<"G","e","t">>),
   star |-> OneOp(<<"/","*">>, "Get", <<"G","e","t">>),
   pair |-> OneOp(<<"/",":","i","d">>, "PostParam", <<"P","o","s","t","P","a","r","a","m">>),
   twin |-> OneOp(<<"/",":","p","a","r","a","m">>, "PostParam", <<"P","o","s","t","P","a","r","a","m">>),
   rest |-> OneOp(<<"/",":","i","d","*">>, "Get", <<"G","e","t">>),
   full |-> [prefix |-> <<"/","v","1">>, preload |-> "default", methods |-> FullMethods]]

\* A handler object as the application hands it to Use: new(T), whose embedded
\* web.Handler has the empty prefix; hooks is the history of the calls the
\* core made on the object.
NewHand == [prefix |-> <<>>, hooks |-> <<>>]
NewHands == [h \in DOMAIN Hands |-> NewHand]
\* hand.Init(): the objects of the model set their prefix there, as the
\* example's Handler does with h.SetPrefix("/api")
HandInit(h, o) == [prefix |-> Hands[h].prefix, hooks |-> Append(o.hooks, "Init")]
\* hand.Prefix()
HandPrefix(o) == [o EXCEPT !.hooks = Append(@, "Prefix")]

\* Variant of Verbs: the cases head and all are missing.
Verbs_short == << <<<<"g","e","t">>, "GET">>, <<<<"p","o","s","t">>, "POST">>,
                  <<<<"p","u","t">>, "PUT">>, <<<<"d","e","l","e","t","e">>, "DELETE">>,
                  <<<<"p","a","t","c","h">>, "PATCH">> >>

\* the switch of buildHands: the first case whose verb token prefixes the name
Verbs == << <<<<"g","e","t">>, "GET">>, <<<<"p","o","s","t">>, "POST">>,
            <<<<"p","u","t">>, "PUT">>, <<<<"d","e","l","e","t","e">>, "DELETE">>,
            <<<<"p","a","t","c","h">>, "PATCH">>, <<<<"h","e","a","d">>, "HEAD">>,
            <<<<"a","l","l">>, "ALL">> >>

RECURSIVE buildMethods(_, _, _, _)
buildMethods(st, h, prefix, i) ==
  LET ms == Hands[h].methods IN
  IF i > Len(ms) THEN st
  ELSE LET m == ms[i]
           name == toNamer(m.name)
           hits == {v \in DOMAIN Verbs : HasPrefix(name, Verbs[v][1])}
       IN IF hits = {} \/ ~m.ctxFn THEN buildMethods(st, h, prefix, i + 1)
          ELSE LET v == Verbs[SetMin(hits)]
               IN buildMethods(
                    pushMethod(st, v[2], fixURI(prefix, name, v[1]), <<OpOf(h, m.label)>>),
                    h, prefix, i + 1)

\* Variant of buildHands: the Preload hook is registered after the operations.
buildHands_preloadLast(st, h) ==
  LET prefix == Hands[h].prefix
      st1 == buildMethods(st, h, prefix, 1)
      st2 == pushMethod(st1, "USE", prefix, <<PreloadOf(h)>>)
  IN pushMethod(st2, "GET", S_check, <<CheckFn>>)

\* Variant of buildHands: the prefix is read before Init is called.
buildHands_prefixFirst(st, h) ==
  LET o == HandInit(h, HandPrefix(st.objs[h]))
      prefix == st.objs[h].prefix
      st0 == [st EXCEPT !.objs[h] = o]
      st1 == pushMethod(st0, "USE", prefix, <<PreloadOf(h)>>)
      st2 == buildMethods(st1, h, prefix, 1)
  IN pushMethod(st2, "GET", S_check, <<CheckFn>>)

\* hand.Init(); prefix := hand.Prefix(); USE prefix Preload; the operations;
\* GET /check
buildHands(st, h) ==
  LET o == HandPrefix(HandInit(h, st.objs[h]))
      prefix == o.prefix
      st0 == [st EXCEPT !.objs[h] = o]
      st1 == pushMethod(st0, "USE", prefix, <<PreloadOf(h)>>)
      st2 == buildMethods(st1, h, prefix, 1)
  IN pushMethod(st2, "GET", S_check, <<CheckFn>>)

RECURSIVE UseLoop(_, _, _, _, _, _)
\* the loop of Core.Use over its arguments, then the final pushMethod
UseLoop(st, args, i, path, handlers, skip) ==
  IF st.fatal THEN st
  ELSE IF i > Len(args)
       THEN IF skip THEN st ELSE pushMethod(st, "USE", path, handlers)
  ELSE LET a == args[i]
       IN CASE a.t = "string" -> UseLoop(st, args, i + 1, a.s, handlers, skip)
            [] a.t = "func" -> UseLoop(st, args, i + 1, path, Append(handlers, Fn(a.f)), skip)
            [] a.t = "handle" -> UseLoop(buildHands(st, a.f), args, i + 1, path, handlers, TRUE)
            [] OTHER -> [st EXCEPT !.fatal = TRUE]

\* Variant of Use: an argument of an unsupported type is passed over.
Use_dropUnsupported(st, args) ==
  UseLoop(st, SelectSeq(args, LAMBDA a : a.t \in {"string", "func", "handle"}),
          1, <<>>, <<>>, FALSE)

\* Variant of Use: skip is set from the start.
Use_skipAlways(st, args) == UseLoop(st, args, 1, <<>>, <<>>, TRUE)

Use(st, args) == UseLoop(st, args, 1, <<>>, <<>>, FALSE)

ArgString(s) == [t |-> "string", s |-> s, f |-> ""]
ArgFunc(f) == [t |-> "func", s |-> <<>>, f |-> f]
ArgHandle(h) == [t |-> "handle", s |-> <<>>, f |-> h]
\* an argument of any other type, such as an int
ArgOther == [t |-> "other", s |-> <<>>, f |-> ""]

\* the handler of a Static route
StaticFn == [kind |-> "static", obj |-> "", name |-> "static"]
\* strings.Split(s, "*")[0]
BeforeStar(s) ==
  IF ContainsC(s, "*")
  THEN SubSeq(s, 1, SetMin({i \in 1..Len(s) : s[i] = "*"}) - 1)
  ELSE s

\* Variant of regStatic: the route is put in front of the table.
regStatic_front(st, prefix0) ==
  [st EXCEPT !.routes =
     <<NewRoute("*", ToLower(prefix0), FALSE, TRUE, FALSE, FALSE, FALSE,
                <<>>, <<>>, StaticFn)>> \o @]

\* Core.regStatic(prefix, root): one middleware route that serves files
regStatic(st, prefix0) ==
  LET p1 == IF prefix0 = <<>> THEN S_slash ELSE prefix0
      p2 == IF p1[1] # "/" /\ p1[1] # "*" THEN S_slash \o p1 ELSE p1
      p3 == IF p2 = <<"*">> \/ p2 = <<"/","*">> THEN S_slash ELSE p2
      p4 == ToLower(p3)
      isSlash == p4 = S_slash
      prefix == BeforeStar(p4)
  IN [st EXCEPT !.routes =
        Append(@, NewRoute("*", prefix, FALSE, TRUE, FALSE, isSlash, FALSE,
                           <<>>, <<>>, StaticFn))]

\* The Use calls the application may make while it is being built.
UseMenu ==
  << <<ArgFunc("f1")>>,
     <<ArgString(S_api), ArgFunc("f2")>>,
     <<ArgHandle("api")>>,
     <<ArgHandle("gate")>>,
     <<ArgHandle("byid")>>,
     <<ArgString(S_api)>> >>

(***************************************************************************)
(* State.                                                                  *)
(***************************************************************************)
VARIABLES
  phase,    \* "build": the application registers routes; "serve": Serve was
            \* called; "fatal": log.Fatalf ended the process
  routes,   \* Core.routes
  regLog,   \* history: the Use calls made, as indices of UseMenu
  objs,     \* the handler objects of the application, by name
  etag,     \* Options.ETag
  ctxs,     \* the Ctx objects allocated so far, by identity
  made,     \* number of Ctx objects allocated by poolCtx.New
  pool,     \* the Ctx objects sitting in poolCtx
  pc,       \* per request task: where Core.handler stands
  cx,       \* per request task: the Ctx it holds (0: none)
  req,      \* per request task: method and path of the transport request
  resp,     \* per request task: status and body of the transport response
  stack,    \* per request task: the handlers being executed, innermost last
  trace     \* per request task, history: what dispatch did, in order

vars == <<phase, routes, regLog, objs, etag, ctxs, made, pool, pc, cx, req, resp, stack, trace>>

Procs == 1..2
CtxIds == 1..MaxCtx

Methods == {"GET", "POST"}
RawPaths == {S_slash, S_api, <<"/","A","p","i","/","4","2">>, S_check}
Errors == {"E1", "E2"}

\* a Ctx as new(Ctx) leaves it
ZeroCtx == [index |-> 0, method |-> "", path |-> <<>>, Route |-> <<>>,
            values |-> <<>>, err |-> "", RequestCtx |-> 0, Core |-> FALSE]
NoReq == [method |-> "", path |-> <<>>]
FreshResp == [status |-> 200, body |-> ""]

Ev(e, i, x) == [ev |-> e, i |-> i, x |-> x]

(***************************************************************************)
(* The context: assignCtx, releaseCtx, Ctx.Params, Ctx.SendStatus.         *)
(***************************************************************************)
\* Variant of assignCtx: the cursor is left as it was.
assignCtx_keepIndex(c, fctx, method, path) ==
  [c EXCEPT !.path = path, !.method = method, !.RequestCtx = fctx]

\* assignCtx(fctx) on the Ctx c that poolCtx.Get returned
assignCtx(c, fctx, method, path) ==
  [c EXCEPT !.index = -1, !.path = path, !.method = method, !.RequestCtx = fctx]

\* Variant of releaseCtx: the error is left on the Ctx.
releaseCtx_keepErr(c) == [c EXCEPT !.Route = <<>>, !.values = <<>>, !.RequestCtx = 0]

releaseCtx(c) ==
  [c EXCEPT !.Route = <<>>, !.values = <<>>, !.RequestCtx = 0, !.err = ""]

\* Ctx.Params(k): panic is a nil Route or an index outside values
Params(c, k) ==
  IF c.Route = <<>> THEN [panic |-> TRUE, v |-> <<>>]
  ELSE LET ps == routes[c.Route[1] + 1].Params
           hits == {i \in DOMAIN ps : ps[i] = k}
       IN IF hits = {} THEN [panic |-> FALSE, v |-> <<>>]
          ELSE LET i == SetMin(hits)
               IN IF i > Len(c.values) THEN [panic |-> TRUE, v |-> <<>>]
                  ELSE [panic |-> FALSE, v |-> c.values[i]]

\* Variant of Next0: the cursor is reset, so scanning starts over.
Next0_resetCursor(c) == [c EXCEPT !.Route = <<>>, !.values = <<>>, !.index = -1]

\* Ctx.Next(): what it does to the Ctx before it calls nextRoute
Next0(c) == [c EXCEPT !.Route = <<>>, !.values = <<>>]

\* Variant of NextErr: the error is not stored.
NextErr_dropped(c, e) == [c EXCEPT !.Route = <<>>, !.values = <<>>]

\* Ctx.Next(err)
NextErr(c, e) == [c EXCEPT !.Route = <<>>, !.values = <<>>, !.err = e]

statusMessages(code) ==
  CASE code = 404 -> "Not Found" [] code = 304 -> "Not Modified" [] OTHER -> ""

\* Variant of SendStatus: the status is set, the reason phrase is not written.
SendStatus_noBody(r, code) == [status |-> code, body |-> r.body]

\* Ctx.SendStatus(code)
SendStatus(r, code) ==
  [status |-> code, body |-> IF r.body = "" THEN statusMessages(code) ELSE r.body]

\* setETag(ctx, body, false); hit: the request's If-None-Match names this body
setETag(r, hit) ==
  IF r.body = "" THEN r
  ELSE IF hit THEN [SendStatus(r, 304) EXCEPT !.body = ""]
  ELSE r

(***************************************************************************)
(* Building the application.                                               *)
(***************************************************************************)
Serving == <<ctxs, made, pool, pc, cx, req, resp, stack, trace>>

\* app.Use(args...); the application makes each call of the menu at most once
CallUse(a) ==
  /\ phase = "build"
  /\ \A k \in DOMAIN regLog : regLog[k] # a
  /\ LET st == Use([routes |-> routes, fatal |-> FALSE, objs |-> objs], UseMenu[a])
     IN /\ Len(st.routes) <= MaxRoutes
        /\ routes' = st.routes
        /\ objs' = st.objs
        /\ phase' = IF st.fatal THEN "fatal" ELSE "build"
  /\ regLog' = Append(regLog, a)
  /\ UNCHANGED <<etag, Serving>>

\* app.Serve(addr)
Serve ==
  /\ phase = "build"
  /\ phase' = "serve"
  /\ UNCHANGED <<routes, regLog, objs, etag, Serving>>

(***************************************************************************)
(* One request: Core.handler, Core.nextRoute, Ctx.Next and the handlers.   *)
(***************************************************************************)
\* poolCtx.Get() returning c, and poolCtx.Put(c)
\* Variant of poolGet: the Ctx handed out stays in the pool.
poolGet_keep(pl, c) == pl
poolGet(pl, c) == pl \ {c}
poolPut(pl, c) == pl \cup {c}

\* Core.handler up to its call of nextRoute: poolCtx.Get returns a pooled Ctx
\* or, ignoring the pool, a new one; assignCtx; the path is normalised.
Accept(p, method, path) ==
  /\ phase = "serve"
  /\ pc[p] = "idle"
  /\ \E c \in CtxIds :
       /\ \/ c \in pool /\ made' = made
          \/ c = made + 1 /\ made' = made + 1
       /\ pool' = poolGet(pool, c)
       /\ trace' = [trace EXCEPT ![p] =
                      <<Ev("acquire", c, IF c \in pool THEN "pool" ELSE "new")>>]
       /\ cx' = [cx EXCEPT ![p] = c]
       /\ ctxs' = [ctxs EXCEPT ![c] =
                     [assignCtx(@, p, method, path) EXCEPT
                        !.Core = TRUE, !.path = NormPath(path)]]
  /\ req' = [req EXCEPT ![p] = [method |-> method, path |-> path]]
  /\ resp' = [resp EXCEPT ![p] = FreshResp]
  /\ pc' = [pc EXCEPT ![p] = "scan"]
  /\ UNCHANGED <<phase, routes, regLog, objs, etag, stack>>

NewFrame(i) == [route |-> i, calls |-> 0, errs |-> 0, sent |-> FALSE]

\* Variant of lookup: a GET route is not open to HEAD requests.
lookup_noHead(r, c) == matchRoute([r EXCEPT !.isGet = FALSE], c.method, c.path)

\* Variant of lookup: the request method is not looked at.
lookup_anyMethod(r, c) == matchRoute(r, r.Method, c.path)

\* the route at the cursor is matched against the method and path of the Ctx
lookup(r, c) == matchRoute(r, c.method, c.path)

\* one iteration of the loop of nextRoute
Scan(p) ==
  /\ pc[p] = "scan"
  /\ LET c == ctxs[cx[p]]
         i == c.index + 1
     IN /\ c.index < Len(routes) - 1
        /\ LET m == lookup(routes[i + 1], c)
           IN IF m.match
              THEN /\ ctxs' = [ctxs EXCEPT ![cx[p]] =
                                 [c EXCEPT !.index = i, !.Route = <<i>>, !.values = m.values]]
                   /\ stack' = [stack EXCEPT ![p] = Append(@, NewFrame(i))]
                   /\ pc' = [pc EXCEPT ![p] = "handler"]
                   /\ trace' = [trace EXCEPT ![p] = Append(@, Ev("exam", i, "match"))]
              ELSE /\ ctxs' = [ctxs EXCEPT ![cx[p]] = [c EXCEPT !.index = i]]
                   /\ trace' = [trace EXCEPT ![p] = Append(@, Ev("exam", i, "miss"))]
                   /\ UNCHANGED <<stack, pc>>
  /\ UNCHANGED <<phase, routes, regLog, objs, etag, made, pool, cx, req, resp>>

\* where a returning nextRoute hands control: the handler that called Next,
\* or Core.handler
ReturnTo(st) == IF st = <<>> THEN "done" ELSE "handler"

\* Variant of AfterHandler: the return is missing and the loop goes on.
AfterHandler_continue(st) == "scan"

\* nextRoute after route.Handler(ctx) came back: it returns
AfterHandler(st) == ReturnTo(st)

\* Variant of AfterLoop: the end of the table ends the request at once.
AfterLoop_done(st) == "done"

\* nextRoute after its loop ended: it returns
AfterLoop(st) == ReturnTo(st)

\* Variant of NotFoundIfEmpty: the body is not looked at.
NotFoundIfEmpty_always(r) == SendStatus(r, 404)

\* the end of nextRoute: ctx.SendStatus(404) if the response body is empty
NotFoundIfEmpty(r) == IF r.body = "" THEN SendStatus(r, 404) ELSE r

\* the loop of nextRoute ends: 404 if nothing was written, then return
Exhaust(p) ==
  /\ pc[p] = "scan"
  /\ ~(ctxs[cx[p]].index < Len(routes) - 1)
  /\ resp' = [resp EXCEPT ![p] = NotFoundIfEmpty(@)]
  /\ trace' = [trace EXCEPT ![p] =
                 Append(@, Ev("exhaust", ctxs[cx[p]].index,
                              IF resp[p].body = "" THEN "empty" ELSE "written"))]
  /\ pc' = [pc EXCEPT ![p] = AfterLoop(stack[p])]
  /\ UNCHANGED <<phase, routes, regLog, objs, etag, ctxs, made, pool, cx, req, stack>>

Top(p) == stack[p][Len(stack[p])]
TopHandler(p) == routes[Top(p).route + 1].Handler

\* What the code of a handler is: Handler.Preload (c.Next() and return), the
\* /check handler of buildHands (ctx.Send("ok")), the file handler of a Static
\* route, or code of the application, which may do anything the Ctx offers.
Script(h) ==
  IF h.kind = "check" THEN "check"
  ELSE IF h.kind = "Preload" /\ Hands[h.obj].preload = "default" THEN "preload"
  ELSE IF h.kind = "static" THEN "static"
  ELSE "user"

SetTop(p, f) == [stack EXCEPT ![p] = [@ EXCEPT ![Len(@)] = f]]

\* Ctx.Next() with no error: clear Route and values, call nextRoute
HNext(p) ==
  /\ pc[p] = "handler"
  /\ LET f == Top(p)
         s == Script(TopHandler(p))
     IN /\ \/ s = "user" /\ f.calls + f.errs < MaxNextCalls
           \/ s = "preload" /\ f.calls = 0
        /\ stack' = SetTop(p, [f EXCEPT !.calls = @ + 1])
        /\ trace' = [trace EXCEPT ![p] = Append(@, Ev("next", f.route, ""))]
  /\ ctxs' = [ctxs EXCEPT ![cx[p]] = Next0(@)]
  /\ pc' = [pc EXCEPT ![p] = "scan"]
  /\ UNCHANGED <<phase, routes, regLog, objs, etag, made, pool, cx, req, resp>>

\* Ctx.Next(err): clear Route and values, store the error, return
HNextErr(p, e) ==
  /\ pc[p] = "handler"
  /\ LET f == Top(p)
     IN /\ Script(TopHandler(p)) = "user"
        /\ f.calls + f.errs < MaxNextCalls
        /\ f.errs < MaxErrCalls
        /\ stack' = SetTop(p, [f EXCEPT !.errs = @ + 1])
        /\ trace' = [trace EXCEPT ![p] = Append(@, Ev("nexterr", f.route, e))]
  /\ ctxs' = [ctxs EXCEPT ![cx[p]] = NextErr(@, e)]
  /\ UNCHANGED <<phase, routes, regLog, objs, etag, made, pool, pc, cx, req, resp>>

\* Ctx.Send(body); a handler of the model writes, if at all, before it
\* continues the chain
HSend(p) ==
  /\ pc[p] = "handler"
  /\ LET f == Top(p)
         s == Script(TopHandler(p))
     IN /\ s \in {"user", "check"}
        /\ ~f.sent /\ f.calls + f.errs = 0
        /\ stack' = SetTop(p, [f EXCEPT !.sent = TRUE])
        /\ resp' = [resp EXCEPT ![p].body = IF s = "check" THEN "ok" ELSE "x"]
        /\ trace' = [trace EXCEPT ![p] = Append(@, Ev("send", f.route, ""))]
  /\ UNCHANGED <<phase, routes, regLog, objs, etag, ctxs, made, pool, pc, cx, req>>

\* The handler of a Static route finds the file of a GET or HEAD request: the
\* file handler writes it and the handler returns.
HStaticServe(p) ==
  /\ pc[p] = "handler"
  /\ LET f == Top(p)
     IN /\ Script(TopHandler(p)) = "static"
        /\ ~f.sent /\ f.calls = 0
        /\ ctxs[cx[p]].method \in {"GET", "HEAD"}
        /\ stack' = SetTop(p, [f EXCEPT !.sent = TRUE])
        /\ resp' = [resp EXCEPT ![p] = [status |-> 200, body |-> "file"]]
        /\ trace' = [trace EXCEPT ![p] = Append(@, Ev("send", f.route, ""))]
  /\ UNCHANGED <<phase, routes, regLog, objs, etag, ctxs, made, pool, pc, cx, req>>

\* The handler of a Static route does not serve: the request is no GET or
\* HEAD, or the file handler answered 404 or 403 and the response is reset;
\* then ctx.Next().
HStaticPass(p) ==
  /\ pc[p] = "handler"
  /\ LET f == Top(p)
     IN /\ Script(TopHandler(p)) = "static"
        /\ ~f.sent /\ f.calls = 0
        /\ stack' = SetTop(p, [f EXCEPT !.calls = @ + 1])
        /\ trace' = [trace EXCEPT ![p] = Append(@, Ev("next", f.route, ""))]
  /\ resp' = [resp EXCEPT ![p] =
                IF ctxs[cx[p]].method \in {"GET", "HEAD"} THEN FreshResp ELSE @]
  /\ ctxs' = [ctxs EXCEPT ![cx[p]] = Next0(@)]
  /\ pc' = [pc EXCEPT ![p] = "scan"]
  /\ UNCHANGED <<phase, routes, regLog, objs, etag, made, pool, cx, req>>

\* the handler returns into nextRoute, which sets the ETag and returns
HReturn(p) ==
  /\ pc[p] = "handler"
  /\ LET f == Top(p)
         s == Script(TopHandler(p))
         rest == SubSeq(stack[p], 1, Len(stack[p]) - 1)
     IN /\ \/ s = "user"
           \/ s = "preload" /\ f.calls = 1
           \/ s = "check" /\ f.sent
           \/ s = "static" /\ (f.sent \/ f.calls = 1)
        /\ stack' = [stack EXCEPT ![p] = rest]
        /\ pc' = [pc EXCEPT ![p] = AfterHandler(rest)]
  /\ \E hit \in (IF etag /\ resp[p].body # "" THEN BOOLEAN ELSE {FALSE}) :
       /\ resp' = [resp EXCEPT ![p] = IF etag THEN setETag(@, hit) ELSE @]
       /\ trace' = [trace EXCEPT ![p] =
                      Append(@, Ev("ret", Top(p).route, IF hit THEN "hit" ELSE ""))]
  /\ UNCHANGED <<phase, routes, regLog, objs, etag, ctxs, made, pool, cx, req>>

\* Core.handler returns: the deferred releaseCtx
Release(p) ==
  /\ pc[p] = "done"
  /\ ctxs' = [ctxs EXCEPT ![cx[p]] = releaseCtx(@)]
  /\ pool' = poolPut(pool, cx[p])
  /\ cx' = [cx EXCEPT ![p] = 0]
  /\ pc' = [pc EXCEPT ![p] = "idle"]
  /\ req' = [req EXCEPT ![p] = NoReq]
  /\ resp' = [resp EXCEPT ![p] = FreshResp]
  /\ trace' = [trace EXCEPT ![p] = <<>>]
  /\ UNCHANGED <<phase, routes, regLog, objs, etag, made, stack>>

(***************************************************************************)
(* Spec: an application built by any Use calls, then its first request.    *)
(***************************************************************************)
InitServing ==
  /\ ctxs = [c \in CtxIds |-> ZeroCtx]
  /\ made = 0
  /\ pool = {}
  /\ pc = [p \in Procs |-> "idle"]
  /\ cx = [p \in Procs |-> 0]
  /\ req = [p \in Procs |-> NoReq]
  /\ resp = [p \in Procs |-> FreshResp]
  /\ stack = [p \in Procs |-> <<>>]
  /\ trace = [p \in Procs |-> <<>>]

Init ==
  /\ phase = "build"
  /\ routes = <<>>
  /\ regLog = <<>>
  /\ objs = NewHands
  /\ etag \in BOOLEAN
  /\ InitServing

FirstRequest == made = 0 /\ \E m \in Methods, path \in RawPaths : Accept(1, m, path)

Next ==
  \/ \E a \in DOMAIN UseMenu : CallUse(a)
  \/ Serve
  \/ FirstRequest
  \/ Scan(1)
  \/ Exhaust(1)
  \/ HNext(1)
  \/ \E e \in Errors : HNextErr(1, e)
  \/ HSend(1)
  \/ HReturn(1)
  \/ Release(1)

Spec == Init /\ [][Next]_vars

(***************************************************************************)
(* SpecPool: an application with one Use of the api object, serving        *)
(* requests on concurrent tasks, one after another, through the pool.      *)
(***************************************************************************)
PoolApp == Use([routes |-> <<>>, fatal |-> FALSE, objs |-> NewHands], UseMenu[3])

PoolRequests == {<<"GET", S_check>>, <<"POST", <<"/","A","p","i","/","4","2">>>>,
                 <<"POST", S_slash>>}

InitPool ==
  /\ phase = "serve"
  /\ routes = PoolApp.routes
  /\ regLog = <<3>>
  /\ objs = PoolApp.objs
  /\ etag \in BOOLEAN
  /\ InitServing

NextPool ==
  \E p \in Procs :
    \/ \E r \in PoolRequests : Accept(p, r[1], r[2])
    \/ Scan(p)
    \/ Exhaust(p)
    \/ HNext(p)
    \/ \E e \in Errors : HNextErr(p, e)
    \/ HSend(p)
    \/ HReturn(p)
    \/ Release(p)

SpecPool == InitPool /\ [][NextPool]_vars

(***************************************************************************)
(* Properties.                                                             *)
(***************************************************************************)
Cx(p) == ctxs[cx[p]]
InFlight(p) == pc[p] # "idle"
At(p, e) == {k \in DOMAIN trace[p] : trace[p][k].ev = e}
Exams(p) == At(p, "exam")
Invokes(p) == {k \in Exams(p) : trace[p][k].x = "match"}
\* the routes that match the request of task p
MatchSet(p) ==
  {i \in 0..(Len(routes) - 1) :
     matchRoute(routes[i + 1], req[p].method, NormPath(req[p].path)).match}
\* index of the last route examined before position k of the trace, or -1
LastExam(p, k) ==
  LET ex == {j \in Exams(p) : j < k}
  IN IF ex = {} THEN -1 ELSE trace[p][SetMax(ex)].i
\* the handler of the event at k had not called Next() before k
NoNextBefore(p, k) ==
  \A j \in At(p, "next") : j < k => trace[p][j].i # trace[p][k].i

\* C1: the first handler a request invokes is the handler of the lowest-index
\* route that matches the request, and a request that some route matches has
\* invoked a handler by the time dispatch returns.
C1_FirstMatchWins ==
  \A p \in Procs : InFlight(p) =>
    LET inv == Invokes(p)
        ms == MatchSet(p)
    IN /\ inv # {} => ms # {} /\ trace[p][SetMin(inv)].i = SetMin(ms)
       /\ pc[p] = "done" /\ ms # {} => inv # {}

\* C1 witness: two routes of the same method both match the request and the
\* earlier one is the first handler invoked.
C1_Witness ==
  \E p \in Procs :
    /\ pc[p] = "handler"
    /\ \E i, j \in MatchSet(p) :
         /\ i < j
         /\ ~routes[i + 1].isMiddleware /\ ~routes[j + 1].isMiddleware
         /\ routes[i + 1].Method = routes[j + 1].Method
         /\ trace[p][SetMin(Invokes(p))].i = i

\* C2 (as stated): after the handler of route i calls Next(), the next route
\* examined is i+1, and no route is examined twice in a request.
C2_ResumeAtOwnIndexPlusOne ==
  \A p \in Procs : InFlight(p) =>
    /\ \A k \in At(p, "next") :
         k < Len(trace[p]) /\ trace[p][k + 1].ev = "exam"
           => trace[p][k + 1].i = trace[p][k].i + 1
    /\ \A j, k \in Exams(p) : j < k => trace[p][j].i # trace[p][k].i

\* C2 (amended): after Next() scanning resumes at cursor+1, the cursor being
\* the index of the last route examined so far in the request; that is i+1 on
\* the first Next() of the handler of route i. Routes are examined in strictly
\* increasing order, so none is examined twice.
C2_ResumeAtCursorPlusOne ==
  \A p \in Procs : InFlight(p) =>
    /\ \A k \in At(p, "next") :
         k < Len(trace[p]) =>
           /\ trace[p][k + 1].ev \in {"exam", "exhaust"}
           /\ trace[p][k + 1].ev = "exam" =>
                /\ trace[p][k + 1].i = LastExam(p, k) + 1
                /\ NoNextBefore(p, k) => trace[p][k + 1].i = trace[p][k].i + 1
    /\ \A j, k \in Exams(p) : j < k => trace[p][j].i < trace[p][k].i
    /\ Cx(p).index = LastExam(p, Len(trace[p]) + 1)

\* C2 witness: a handler calls Next() a second time and a further route is
\* examined.
C2_Witness ==
  \E p \in Procs : \E k \in At(p, "next") :
    /\ ~NoNextBefore(p, k)
    /\ k < Len(trace[p]) /\ trace[p][k + 1].ev = "exam"

\* C3 (as stated): once a matched handler has returned without calling Next(),
\* no further route is examined for the request.
C3_NothingAfterPlainReturn ==
  \A p \in Procs : \A k \in At(p, "ret") :
    NoNextBefore(p, k) => \A j \in Exams(p) : j < k

\* C3 (amended): when a matched handler returns without having called Next(),
\* the nextRoute call that invoked it returns without examining a route; a
\* later route is examined only after a handler of an earlier route, still
\* running, calls Next() again; and if no handler had called Next() at all the
\* dispatch is over.
C3_PlainReturnEndsItsScan ==
  \A p \in Procs : \A k \in At(p, "ret") :
    NoNextBefore(p, k) =>
      /\ k < Len(trace[p]) => trace[p][k + 1].ev \notin {"exam", "exhaust"}
      /\ \A j \in Exams(p) :
           j > k => \E n \in At(p, "next") :
                      k < n /\ n < j /\ trace[p][n].i < trace[p][k].i
      /\ (\A n \in At(p, "next") : n > k) => k = Len(trace[p]) /\ pc[p] = "done"

\* C3 witness: a handler returned without calling Next() while a route after
\* it matches the request, and dispatch has returned.
C3_Witness ==
  \E p \in Procs : \E k \in At(p, "ret") :
    /\ NoNextBefore(p, k)
    /\ \E i \in MatchSet(p) : i > trace[p][k].i
    /\ pc[p] = "done"

\* C4: the Ctx holds the error of the latest Next(err) of the request (none
\* before the first) until it is released; Next(err) is followed by no scan
\* but by the same handler going on; and the cursor is moved by nothing but
\* the examination of a route.
C4_NextErrStoresAndStops ==
  \A p \in Procs : InFlight(p) =>
    LET ne == At(p, "nexterr")
    IN /\ Cx(p).err = IF ne = {} THEN "" ELSE trace[p][SetMax(ne)].x
       /\ \A k \in ne :
            k < Len(trace[p]) =>
              /\ trace[p][k + 1].ev \in {"next", "nexterr", "ret"}
              /\ trace[p][k + 1].i = trace[p][k].i
       /\ Cx(p).index = LastExam(p, Len(trace[p]) + 1)

\* C4 witness: dispatch has returned and the Ctx holds a stored error.
C4_Witness ==
  \E p \in Procs : pc[p] = "done" /\ At(p, "nexterr") # {} /\ Cx(p).err # ""

NotFound == [status |-> 404, body |-> "Not Found"]
LastEv(p) == trace[p][Len(trace[p])]

\* C5: when a scan has just reached the end of the table with an empty body
\* the response is 404 "Not Found", and a request that no route matches
\* ends with that response.
C5_ExhaustedGives404 ==
  \A p \in Procs : InFlight(p) =>
    /\ LastEv(p).ev = "exhaust" /\ LastEv(p).x = "empty" => resp[p] = NotFound
    /\ pc[p] = "done" /\ MatchSet(p) = {} =>
         LastEv(p).ev = "exhaust" /\ resp[p] = NotFound

\* C5 witness: a request to a non-empty table that no route matches is over.
C5_Witness ==
  \E p \in Procs : pc[p] = "done" /\ MatchSet(p) = {} /\ Len(routes) > 0

\* C6: a Ctx just handed out by assignCtx, new or reused, has cursor -1, no
\* Route, no values and no error, and carries the method, the (normalised)
\* path and the transport handle of the new request; every Ctx in the pool has
\* Route, values, transport handle and error cleared.
C6_AcquiredIsClean ==
  /\ \A p \in Procs :
       pc[p] = "scan" /\ Len(trace[p]) = 1 =>
         /\ trace[p][1].ev = "acquire" /\ trace[p][1].i = cx[p]
         /\ Cx(p).index = -1
         /\ Cx(p).Route = <<>> /\ Cx(p).values = <<>> /\ Cx(p).err = ""
         /\ Cx(p).method = req[p].method
         /\ Cx(p).path = NormPath(req[p].path)
         /\ Cx(p).RequestCtx = p
  /\ \A c \in pool :
       /\ ctxs[c].Route = <<>> /\ ctxs[c].values = <<>>
       /\ ctxs[c].RequestCtx = 0 /\ ctxs[c].err = ""

\* C6 witness: a Ctx taken from the pool has just been assigned to a request
\* while the pool holds another released Ctx.
C6_Witness ==
  \E p \in Procs :
    /\ pc[p] = "scan" /\ Len(trace[p]) = 1
    /\ trace[p][1].x = "pool"
    /\ pool # {}

\* C7: no Ctx is held by two in-flight requests; a Ctx held by a request is
\* not in the pool, from which the next request could take it, and its
\* transport handle is that of its holder.
C7_ExclusiveOwnership ==
  /\ \A p, q \in Procs : p # q /\ InFlight(p) /\ InFlight(q) => cx[p] # cx[q]
  /\ \A p \in Procs :
       InFlight(p) => /\ cx[p] \in 1..made
                      /\ cx[p] \notin pool
                      /\ Cx(p).RequestCtx = p

\* C7 witness: two requests are in flight and one of them holds a Ctx that
\* an earlier request released.
C7_Witness ==
  /\ \A p \in Procs : InFlight(p)
  /\ \E p \in Procs : trace[p][1].x = "pool"

HandlerAt(p, k) == routes[trace[p][k].i + 1].Handler
\* the invocations of operations of handler objects in the request of task p
OpInvokes(p) == {k \in Invokes(p) : HandlerAt(p, k).kind = "op"}
\* the handler invoked at j called Next() between j and k
CalledNext(p, j, k) ==
  \E n \in At(p, "next") : j < n /\ n < k /\ trace[p][n].i = trace[p][j].i
\* no handler has called Next() twice before position k
NoSecondNext(p, k) ==
  \A a, b \in At(p, "next") : a < b /\ b < k => trace[p][a].i # trace[p][b].i
\* the prefix of handler object h names no parameter and no wildcard
PlainPrefix(h) == getParams(Hands[h].prefix) = <<>>

\* C8 (as stated): an operation of a handler object is invoked only after the
\* object's Preload was invoked in the same request and called Next().
C8_PreloadAlwaysGuards ==
  \A p \in Procs : \A k \in OpInvokes(p) :
    \E j \in Invokes(p) :
      /\ j < k
      /\ HandlerAt(p, j) = PreloadOf(HandlerAt(p, k).obj)
      /\ CalledNext(p, j, k)

\* C8 (amended): for a handler object whose prefix holds no parameter or
\* wildcard, Preload is invoked before any operation of the object in the same
\* request; and unless some handler has called Next() a second time, the
\* operation is invoked only after Preload called Next().
C8_PreloadGuardsPlainPrefix ==
  \A p \in Procs : \A k \in OpInvokes(p) :
    PlainPrefix(HandlerAt(p, k).obj) =>
      \E j \in Invokes(p) :
        /\ j < k
        /\ HandlerAt(p, j) = PreloadOf(HandlerAt(p, k).obj)
        /\ NoSecondNext(p, k) => CalledNext(p, j, k)

\* C8 witness: the overridden Preload of an object returned without calling
\* Next(), an operation of the object matches the request, and the request
\* ended with no operation invoked.
C8_Witness ==
  \E p \in Procs : \E j \in Invokes(p) :
    /\ HandlerAt(p, j) = PreloadOf("gate")
    /\ pc[p] = "done"
    /\ At(p, "next") = {}
    /\ \E i \in MatchSet(p) : routes[i + 1].Handler = OpOf("gate", "Get")
    /\ OpInvokes(p) = {}

S_api42 == <<"/","a","p","i","/","4","2">>
\* the request of task p has this method and, normalised, this path
Asks(p, method, path) == req[p].method = method /\ NormPath(req[p].path) = path
Invoked(p, h) == \E k \in Invokes(p) : HandlerAt(p, k) = h

\* C9: with only the object of prefix /api registered (default Preload,
\* operations Get and PostParam), a GET of /api invokes Get, a POST of /api/42
\* invokes PostParam, and in PostParam Params("param") is "42".
C9_ApiEndToEnd ==
  regLog = <<3>> =>
    \A p \in Procs :
      /\ pc[p] = "done" /\ Asks(p, "GET", S_api) => Invoked(p, OpOf("api", "Get"))
      /\ pc[p] = "done" /\ Asks(p, "POST", S_api42) =>
           Invoked(p, OpOf("api", "PostParam"))
      /\ /\ pc[p] = "handler"
         /\ TopHandler(p) = OpOf("api", "PostParam")
         /\ Top(p).calls + Top(p).errs = 0
         => Params(Cx(p), S_param) = [panic |-> FALSE, v |-> <<"4","2">>]

\* C9 witness: PostParam is running for a POST of /api/42.
C9_Witness ==
  /\ regLog = <<3>>
  /\ pc[1] = "handler"
  /\ Asks(1, "POST", S_api42)
  /\ TopHandler(1) = OpOf("api", "PostParam")
  /\ Top(1).calls + Top(1).errs = 0

\* a route as the table lists it: method, path and handler
Entry(r) == <<IF r.isMiddleware THEN "USE" ELSE r.Method, r.Path, r.Handler>>
Table == [i \in 1..Len(routes) |-> Entry(routes[i])]
ApiUserRoutes ==
  << <<"USE", S_api, PreloadOf("api")>>,
     <<"GET", S_api, OpOf("api", "Get")>>,
     <<"POST", S_api \o <<"/",":">> \o S_param, OpOf("api", "PostParam")>> >>

\* C10 (as stated): registering the /api object on an empty table leaves the
\* Preload middleware route, GET /api and POST /api/:param, and nothing else.
C10_ApiTableOnlyUserRoutes ==
  regLog = <<3>> => Table = ApiUserRoutes

\* C10 (amended): registering the /api object on an empty table leaves the
\* Preload middleware route, GET /api, POST /api/:param and the GET /check
\* route that buildHands adds for every handler object, in this order.
C10_ApiTableWithCheck ==
  regLog = <<3>> => Table = Append(ApiUserRoutes, <<"GET", S_check, CheckFn>>)

\* C10 witness: the /api object is the one registration made, and the
\* application serves.
C10_Witness ==
  regLog = <<3>> /\ phase = "serve" /\ Len(routes) > 0

(***************************************************************************)
(* SpecNamer: applications that register up to MaxObjects handler objects, *)
(* each with one operation, so that the table shows what toNamer, fixURI   *)
(* and pushMethod make of the prefix and the operation's name.             *)
(***************************************************************************)
NamerMenu ==
  << <<ArgHandle("root")>>, <<ArgHandle("users")>>, <<ArgHandle("req")>>,
     <<ArgHandle("opt")>>, <<ArgHandle("getter")>>, <<ArgHandle("items")>>,
     <<ArgHandle("bare")>>, <<ArgHandle("ids")>> >>

\* app.Use(menu[a]...), each call of the menu made at most once, at most
\* maxCalls calls
CallUseIn(menu, a, maxCalls) ==
  /\ phase = "build"
  /\ Len(regLog) < maxCalls
  /\ \A k \in DOMAIN regLog : regLog[k] # a
  /\ LET st == Use([routes |-> routes, fatal |-> FALSE, objs |-> objs], menu[a])
     IN /\ routes' = st.routes
        /\ objs' = st.objs
        /\ phase' = IF st.fatal THEN "fatal" ELSE "build"
  /\ regLog' = Append(regLog, a)
  /\ UNCHANGED <<etag, Serving>>

NextNamer ==
  \/ \E a \in DOMAIN NamerMenu : CallUseIn(NamerMenu, a, MaxObjects)
  \/ Serve

SpecNamer == Init /\ [][NextNamer]_vars

\* the handler objects registered so far, and the operation of each
NamerObjs == {NamerMenu[regLog[k]][1].f : k \in DOMAIN regLog}
OpMethod(h) ==
  LET ms == Hands[h].methods
  IN ms[CHOOSE i \in DOMAIN ms :
          ms[i].ctxFn /\ ms[i].label # "Preload"]
\* the route registered for the operation of object h
OpRoute(h) ==
  routes[CHOOSE i \in DOMAIN routes : routes[i].Handler = OpOf(h, OpMethod(h).label)]
IsLower(c) == \E i \in DOMAIN LowerAlpha : LowerAlpha[i] = c
\* the places of a name where a lower-case letter is followed by an upper-case
\* one, as the number of letters before the upper-case one
Boundaries(name) ==
  {i \in 1..(Len(name) - 1) : IsLower(name[i]) /\ IsUpper(name[i + 1])}
\* the places of the "/" separators of a transformed name, as the number of
\* letters of the name before each
SegStarts(t) ==
  {Cardinality({j \in 1..(i - 1) : t[j] \notin {"/", ":", "?"}}) :
     i \in {x \in 1..Len(t) : t[x] = "/"}}
MethodAndPath(r) == <<r.Method, r.Path>>

\* C11: Get under the empty prefix is registered as GET /, GetUserInfo under
\* /api as GET /api/user/info, PostParam as POST /:param with the required
\* parameter param, PutParams as PUT /:param? with the optional parameter
\* param; and every lower-to-upper case boundary of an operation name is a
\* "/" separator of its transformed name.
C11_NameScenarios ==
  \A h \in NamerObjs :
    LET r == OpRoute(h) IN
    /\ h = "root" => MethodAndPath(r) = <<"GET", S_slash>>
    /\ h = "users" =>
         MethodAndPath(r) = <<"GET", S_api \o <<"/","u","s","e","r","/","i","n","f","o">>>>
    /\ h = "req" =>
         /\ MethodAndPath(r) = <<"POST", <<"/",":">> \o S_param>>
         /\ r.Params = <<S_param>>
         /\ r.Regexp = <<[k |-> "req", s |-> <<>>]>>
    /\ h = "opt" =>
         /\ MethodAndPath(r) = <<"PUT", <<"/",":">> \o S_param \o <<"?">>>>
         /\ r.Params = <<S_param>>
         /\ r.Regexp = <<[k |-> "opt", s |-> <<>>]>>
    /\ Boundaries(OpMethod(h).name) \subseteq SegStarts(toNamer(OpMethod(h).name))

\* C11 witness: an application registered the objects with the operations
\* GetUserInfo and PutParams.
C11_Witness ==
  /\ {"users", "opt"} \subseteq NamerObjs
  /\ Boundaries(OpMethod("users").name) = {3, 7}

\* the verb token of a transformed name: the first case of the switch of
\* buildHands that applies
VerbOf(t) == Verbs[SetMin({v \in DOMAIN Verbs : HasPrefix(t, Verbs[v][1])})][1]
\* a path with the leading "/" pushMethod gives it
LeadSlash(p) ==
  IF p = <<>> THEN S_slash ELSE IF p[1] # "/" THEN S_slash \o p ELSE p
\* the path C12 describes for the operation of object h: the prefix joined
\* with the transformed name less exactly its leading verb token
PathLessVerb(h) ==
  LET t == toNamer(OpMethod(h).name)
      rest == SubSeq(t, Len(VerbOf(t)) + 1, Len(t))
  IN NormPath(LeadSlash(Join(Hands[h].prefix, rest)))

\* C12: the path registered for an operation is the join of the prefix with
\* the transformed name from which exactly the leading verb token has been
\* removed, with a leading "/" and no duplicate slashes; an operation named
\* after the verb alone gets the prefix path.
C12_PathIsPrefixPlusNameLessVerb ==
  \A h \in NamerObjs : OpRoute(h).Path = PathLessVerb(h)

(***************************************************************************)
(* SpecMatch: applications built by up to MaxUses Use calls that register  *)
(* middleware, literal, parameter and wildcard routes, serving one request *)
(* whose handlers write, continue the chain at most once, and return.      *)
(***************************************************************************)
MatchMenu ==
  << <<ArgFunc("f1")>>,
     <<ArgString(S_api), ArgFunc("f2")>>,
     <<ArgString(<<"*">>), ArgFunc("f3")>>,
     <<ArgString(<<"/",":","i","d">>), ArgFunc("f4")>>,
     <<ArgHandle("api")>>,
     <<ArgHandle("gate")>>,
     <<ArgHandle("opts")>>,
     <<ArgHandle("any")>>,
     <<ArgHandle("files")>>,
     <<ArgHandle("star")>>,
     <<ArgHandle("pair")>>,
     <<ArgHandle("twin")>>,
     <<ArgString(<<"A","p","i","/">>), ArgFunc("f7")>>,
     <<ArgString(<<"/","/">>), ArgFunc("f8")>> >>

MatchMethods == {"GET", "POST", "PUT", "HEAD"}
MatchPaths ==
  {S_slash, S_api, <<"/","A","p","i","/">>, <<"/","A","p","i","/","4","2">>,
   <<"/","f">>, <<"/","f","/","a","/","B">>, S_check}

InitMatch ==
  /\ phase = "build"
  /\ routes = <<>>
  /\ regLog = <<>>
  /\ objs = NewHands
  /\ etag = FALSE
  /\ InitServing

NextMatch ==
  \/ \E a \in DOMAIN MatchMenu : CallUseIn(MatchMenu, a, MaxUses)
  \/ Serve
  \/ made = 0 /\ \E m \in MatchMethods, path \in MatchPaths : Accept(1, m, path)
  \/ Scan(1)
  \/ Exhaust(1)
  \/ HNext(1) /\ Top(1).calls = 0
  \/ HSend(1)
  \/ HReturn(1)
  \/ Release(1)

SpecMatch == InitMatch /\ [][NextMatch]_vars

\* the "/"-separated segments of a path, and a path less its last segment
Segs(path) == Tail(Split(path))
LastSeg(path) == Segs(path)[Len(Segs(path))]
Base(path) ==
  LET b == JoinSlash(SubSeq(Split(path), 1, Len(Split(path)) - 1))
  IN IF b = <<>> THEN S_slash ELSE b
IsParamSeg(s) == s # <<>> /\ s[1] = ":"
IsOptSeg(s) == IsParamSeg(s) /\ s[Len(s)] = "?"
IsPlain(path) == ~ContainsC(path, ":") /\ ~ContainsC(path, "*")
\* a verb route whose last segment is an optional, or a required, parameter
\* behind literal segments
OptLast(r) ==
  ~r.isMiddleware /\ IsOptSeg(LastSeg(r.Path)) /\ IsPlain(Base(r.Path))
ReqLast(r) ==
  ~r.isMiddleware /\ IsParamSeg(LastSeg(r.Path)) /\ ~IsOptSeg(LastSeg(r.Path))
\* the normalised path of the request of task p
ReqPath(p) == NormPath(req[p].path)
\* the request path is the base of the route path plus one more segment
OneMore(q, path) ==
  /\ Len(Segs(q)) = Len(Segs(path))
  /\ Base(q) = Base(path)
  /\ LastSeg(q) # <<>>
RouteAt(p, k) == routes[trace[p][k].i + 1]
\* the handler of the route examined at position k has just been invoked
JustInvoked(p, k) ==
  pc[p] = "handler" /\ k = Len(trace[p]) /\ k \in Invokes(p)

\* C13: a route ending in an optional parameter matches a request of its
\* method whose path is the route's base, with the empty value, and one whose
\* path is the base plus a segment, with that segment as value; a route ending
\* in a required parameter does not match a path with fewer segments than its
\* own.
C13_OptionalAndRequired ==
  \A p \in Procs : \A k \in Exams(p) :
    LET r == RouteAt(p, k)
        q == ReqPath(p)
    IN /\ OptLast(r) /\ r.Method = req[p].method /\ q = Base(r.Path) =>
            /\ trace[p][k].x = "match"
            /\ JustInvoked(p, k) => Cx(p).values = << <<>> >>
       /\ OptLast(r) /\ r.Method = req[p].method /\ OneMore(q, r.Path) =>
            /\ trace[p][k].x = "match"
            /\ JustInvoked(p, k) => Cx(p).values = <<LastSeg(q)>>
       /\ ReqLast(r) /\ Len(Segs(q)) < Len(Segs(r.Path)) => trace[p][k].x = "miss"

\* C13 witness: the handler of a route ending in an optional parameter has
\* just been invoked for a request path without that segment, with the empty
\* value.
C13_Witness ==
  \E k \in Exams(1) :
    /\ JustInvoked(1, k)
    /\ OptLast(RouteAt(1, k))
    /\ ReqPath(1) = Base(RouteAt(1, k).Path)
    /\ Cx(1).values = << <<>> >>

S_star == <<"*">>
\* a verb route mounted as M/*, its mount M (empty for the root route /*), the
\* request paths under M and what such a path holds after the mount prefix
IsWildcard(r) == ~r.isMiddleware /\ LastSeg(r.Path) = S_star
Mount(path) == SubSeq(path, 1, Len(path) - 2)
Under(q, m) == HasPrefix(q, m \o S_slash) /\ Len(q) > Len(m) + 1
AfterMount(q, m) == SubSeq(q, Len(m) + 2, Len(q))

\* C14: a wildcard route mounted at M, the root route /* included, matches
\* every request of its method whose path lies under M, and in its handler
\* Params("*") is what the request path holds after the mount prefix.
C14_WildcardCapturesRest ==
  \A p \in Procs : \A k \in Exams(p) :
    LET r == RouteAt(p, k)
        q == ReqPath(p)
    IN IsWildcard(r) /\ r.Method = req[p].method /\ Under(q, Mount(r.Path)) =>
         /\ trace[p][k].x = "match"
         /\ JustInvoked(p, k) =>
              Params(Cx(p), S_star) = [panic |-> FALSE, v |-> AfterMount(q, Mount(r.Path))]

\* a verb route whose path holds no parameter and no wildcard
IsLiteral(r) == ~r.isMiddleware /\ IsPlain(r.Path)
\* the request path of task p is this route path but for the case of its
\* letters and for trailing slashes
SameButCaseAndSlash(p, path) ==
  \/ ToLower(TrimRight(req[p].path, {"/"})) = path
  \/ req[p].path = S_slash /\ path = S_slash

\* C15: a literal route examined for a request of its method whose path is the
\* route's path but for case and trailing slashes matches, wherever it stands
\* in the table.
C15_LiteralMatchesNormalised ==
  \A p \in Procs : \A k \in Exams(p) :
    LET r == RouteAt(p, k)
    IN IsLiteral(r) /\ r.Method = req[p].method /\ SameButCaseAndSlash(p, r.Path)
         => trace[p][k].x = "match"

\* C15 witness: a literal route behind the routes of an earlier registration
\* has just been matched by a request path that differs from the route path
\* in case and by a trailing slash.
C15_Witness ==
  \E k \in Exams(1) :
    /\ JustInvoked(1, k)
    /\ IsLiteral(RouteAt(1, k))
    /\ Len(regLog) = 2 /\ trace[1][k].i >= 3
    /\ req[1].path # RouteAt(1, k).Path
    /\ req[1].path # ToLower(req[1].path)
    /\ req[1].path # TrimRight(req[1].path, {"/"})

\* the path argument of a Use call: its last string argument, else ""
PathArg(args) ==
  LET js == {j \in DOMAIN args : args[j].t = "string"}
  IN IF js = {} THEN <<>> ELSE args[SetMax(js)].s
\* the path a middleware route of SpecMatch was registered with: the prefix
\* of its handler object, or the path argument of its Use call
RawPathOf(r) ==
  IF r.Handler.kind = "Preload" THEN Hands[r.Handler.obj].prefix
  ELSE PathArg(MatchMenu[CHOOSE a \in DOMAIN MatchMenu :
                           \E j \in DOMAIN MatchMenu[a] :
                             MatchMenu[a][j] = ArgFunc(r.Handler.name)])
AlwaysPaths == {<<>>, S_slash, S_star, <<"/","*">>}
\* q begins with m, character by character
BeginsWith(q, m) == Len(m) <= Len(q) /\ \A i \in 1..Len(m) : q[i] = m[i]

\* C16: a middleware route matches a request exactly if it was registered
\* with the empty path, "/", "*" or "/*", or the normalised request path
\* begins with the route's normalised path as a plain string; the request
\* method plays no part.
C16_MiddlewareMatchesByPrefix ==
  \A p \in Procs : \A k \in Exams(p) :
    LET r == RouteAt(p, k)
    IN r.isMiddleware =>
         (trace[p][k].x = "match"
            <=> \/ RawPathOf(r) \in AlwaysPaths
                \/ BeginsWith(ReqPath(p), NormPath(LeadSlash(RawPathOf(r)))))

\* C16 witness: a middleware route registered with a parameter segment has
\* been examined and not matched for a request path its pattern would cover,
\* after a middleware route registered with "*" matched a POST request.
C16_Witness ==
  \E j, k \in Exams(1) :
    /\ j < k
    /\ RouteAt(1, j).isMiddleware /\ RawPathOf(RouteAt(1, j)) = S_star
    /\ trace[1][j].x = "match"
    /\ req[1].method = "POST"
    /\ RouteAt(1, k).isMiddleware /\ ContainsC(RouteAt(1, k).Path, ":")
    /\ Len(Segs(ReqPath(1))) = Len(Segs(RouteAt(1, k).Path))
    /\ trace[1][k].x = "miss"

\* the method a verb route was registered with: the verb of the operation's
\* name for a route of a handler object, GET for the /check route
RegMethod(r) ==
  IF r.Handler.kind = "check" THEN "GET"
  ELSE LET ms == Hands[r.Handler.obj].methods
           m == ms[CHOOSE i \in DOMAIN ms : ms[i].label = r.Handler.name]
           t == toNamer(m.name)
       IN Verbs[SetMin({v \in DOMAIN Verbs : HasPrefix(t, Verbs[v][1])})][2]
\* the request method is one a route registered with method m is open to
MethodFits(m, method) ==
  m = method \/ m = "ALL" \/ (m = "GET" /\ method = "HEAD")

\* C17: a verb route matches a request only if it was registered with the
\* request's method, or as ALL, or as GET while the request is a HEAD; and a
\* literal route examined for a request of its path matches in each of these
\* cases.
C17_MethodGate ==
  \A p \in Procs : \A k \in Exams(p) :
    LET r == RouteAt(p, k)
    IN ~r.isMiddleware =>
         /\ trace[p][k].x = "match" => MethodFits(RegMethod(r), req[p].method)
         /\ IsLiteral(r) /\ ReqPath(p) = r.Path /\ MethodFits(RegMethod(r), req[p].method)
              => trace[p][k].x = "match"

\* C17 witness: a GET route has just been matched by a HEAD request, after a
\* route registered as ALL matched it too.
C17_Witness ==
  \E j, k \in Exams(1) :
    /\ j < k
    /\ ~RouteAt(1, j).isMiddleware /\ RegMethod(RouteAt(1, j)) = "ALL"
    /\ trace[1][j].x = "match"
    /\ JustInvoked(1, k)
    /\ ~RouteAt(1, k).isMiddleware /\ RegMethod(RouteAt(1, k)) = "GET"
    /\ req[1].method = "HEAD"

\* the pairs of verb routes registered with the same method and path
Duplicates ==
  {ij \in (DOMAIN routes) \X (DOMAIN routes) :
     /\ ij[1] < ij[2]
     /\ ~routes[ij[1]].isMiddleware /\ ~routes[ij[2]].isMiddleware
     /\ routes[ij[1]].Method = routes[ij[2]].Method
     /\ routes[ij[1]].Path = routes[ij[2]].Path}
\* the positions of the trace at which the route of table index i was invoked
InvokesOf(p, i) == {k \in Invokes(p) : trace[p][k].i = i - 1}

\* C18 (as stated): registering two verb routes with the same method and path
\* is no error, and the handler of the later one is never invoked.
C18_LaterDuplicateNeverInvoked ==
  /\ Duplicates # {} => phase # "fatal"
  /\ \A ij \in Duplicates : \A p \in Procs : InvokesOf(p, ij[2]) = {}

\* C18 (amended): registering two verb routes with the same method and path
\* is no error; the later one is invoked only after the earlier one was
\* invoked in the same request and some handler called Next() since; so when
\* no handler continues the chain after the earlier one was invoked, the later
\* one is not invoked.
C18_LaterDuplicateOnlyAfterNext ==
  /\ Duplicates # {} => phase # "fatal"
  /\ \A ij \in Duplicates : \A p \in Procs : \A k \in InvokesOf(p, ij[2]) :
       \E j \in InvokesOf(p, ij[1]) :
         /\ j < k
         /\ \E n \in At(p, "next") : j < n /\ n < k
  /\ \A ij \in Duplicates : \A p \in Procs :
       pc[p] = "done" /\ ij[2] - 1 \in MatchSet(p) /\ InvokesOf(p, ij[1]) = {}
         => InvokesOf(p, ij[2]) = {}

\* C18 witness: a request is over in which the earlier of two routes with the
\* same method and path was invoked and the later one, which matches the
\* request as well, was not.
C18_Witness ==
  \E ij \in Duplicates :
    /\ pc[1] = "done"
    /\ ij[2] - 1 \in MatchSet(1)
    /\ InvokesOf(1, ij[1]) # {}
    /\ InvokesOf(1, ij[2]) = {}

\* the handler of the route at table index i runs and has not yet continued
\* the chain
Running(p, i) ==
  /\ pc[p] = "handler"
  /\ Top(p).route = i - 1
  /\ Top(p).calls + Top(p).errs = 0
\* a route matched through its compiled pattern
ByPattern(r) == ~r.isMiddleware /\ r.isRegex /\ ~r.isStar
\* the place among the segments of a route path of its i-th parameter or
\* wildcard segment
ParamPlaces(segs) == {j \in DOMAIN segs : IsParamSeg(segs[j]) \/ segs[j] = S_star}
NthParamPlace(segs, i) ==
  CHOOSE j \in ParamPlaces(segs) :
    Cardinality({x \in ParamPlaces(segs) : x < j}) = i - 1
\* the part of request path q that the i-th parameter segment of the route
\* path stands for: the rest of the path for a wildcard, the segment at the
\* same place otherwise, nothing if the request path ends before it
Captured(path, q, i) ==
  LET at == NthParamPlace(Segs(path), i)
  IN IF Segs(path)[at] = S_star THEN AfterMount(q, Mount(path))
     ELSE IF at <= Len(Segs(q)) THEN Segs(q)[at] ELSE <<>>
S_none == <<"n","o","n","e">>
FirstPlace(names, k) == SetMin({i \in DOMAIN names : names[i] = k})

CursorInTable(p) == Cx(p).index \in -1..(Len(routes) - 1)
\* a step within the lifetime of the request of task p
SameRequest(p) == InFlight(p) /\ InFlight(p)' /\ cx'[p] = cx[p]

\* C20: between acquire and release the cursor is -1 or the index of a route
\* of the table, every route examined is one of the table, and no step within
\* a request's lifetime lowers the cursor.
C20_CursorBoundedAndMonotone ==
  /\ [](\A p \in Procs :
          InFlight(p) =>
            /\ CursorInTable(p)
            /\ \A k \in Exams(p) : trace[p][k].i \in 0..(Len(routes) - 1))
  /\ [][\A p \in Procs :
          SameRequest(p) => ctxs'[cx[p]].index >= ctxs[cx[p]].index]_vars

\* C20 witness: a request is over whose handlers continued the chain and
\* whose cursor stands at the last route of a table of several routes.
C20_Witness ==
  /\ pc[1] = "done"
  /\ Len(routes) >= 2
  /\ At(1, "next") # {}
  /\ Cx(1).index = Len(routes) - 1

(***************************************************************************)
(* SpecReg: applications built by up to MaxUses registration calls, Use    *)
(* with functions, with handler objects, with no handler or with an        *)
(* argument of an unsupported type, and Static; then one request.          *)
(***************************************************************************)
RegMenu ==
  << <<ArgFunc("f1")>>,
     <<ArgString(S_api), ArgFunc("f2"), ArgFunc("f3")>>,
     <<ArgString(S_api)>>,
     <<>>,
     <<ArgString(S_api), ArgOther, ArgFunc("f4")>>,
     <<ArgHandle("api")>>,
     <<ArgString(S_api), ArgHandle("gate")>>,
     <<ArgHandle("gate"), ArgOther>>,
     <<ArgHandle("full")>>,
     <<ArgHandle("rest")>>,
     <<ArgHandle("files")>>,
     <<ArgHandle("opts")>>,
     <<ArgFunc("f5"), ArgHandle("api")>>,
     <<ArgString(S_api), ArgHandle("opts"), ArgFunc("f6")>> >>

\* the prefix arguments of the Static calls the application may make
StaticMenu == << <<"/","F","/","*">>, <<"*">> >>

RegMethods == {"GET", "POST"}
RegPaths == {S_slash, S_api, <<"/","f","/","a">>}

\* app.Static(StaticMenu[s], root); in regLog the call is recorded as -s
CallStatic(s) ==
  /\ phase = "build"
  /\ Len(regLog) < MaxUses
  /\ \A k \in DOMAIN regLog : regLog[k] # -s
  /\ routes' = regStatic([routes |-> routes, fatal |-> FALSE, objs |-> objs],
                         StaticMenu[s]).routes
  /\ regLog' = Append(regLog, -s)
  /\ UNCHANGED <<phase, objs, etag, Serving>>

NextReg ==
  \/ \E a \in DOMAIN RegMenu : CallUseIn(RegMenu, a, MaxUses)
  \/ \E s \in DOMAIN StaticMenu : CallStatic(s)
  \/ Serve
  \/ made = 0 /\ \E m \in RegMethods, path \in RegPaths : Accept(1, m, path)
  \/ Scan(1)
  \/ Exhaust(1)
  \/ HNext(1)
  \/ HStaticServe(1)
  \/ HStaticPass(1)
  \/ HSend(1)
  \/ HReturn(1)
  \/ Release(1)

SpecReg == InitMatch /\ [][NextReg]_vars

\* the Use calls among the registration calls made, and their arguments
UseCalls == {k \in DOMAIN regLog : regLog[k] > 0}
ArgsOf(k) == RegMenu[regLog[k]]
\* a Use call without a handler function and without a handler object
NoHandlerArg(args) == \A j \in DOMAIN args : args[j].t \notin {"func", "handle"}
\* a Use call with an argument that is no string, function or handler object
Unsupported(args) ==
  \E j \in DOMAIN args : args[j].t \notin {"string", "func", "handle"}
\* the handler functions a Use call names
FuncsIn(args) == {Fn(args[j].f) : j \in {x \in DOMAIN args : args[x].t = "func"}}
HandlerKinds == {"fn", "Preload", "op", "check", "static"}

\* C21: a Use call without any handler, or with an argument that is neither a
\* path string, a handler function nor a handler object, is the last call the
\* application makes: it ends in the fatal error and adds no middleware route
\* of its own; and every route of the table has a handler.
C21_BadUseIsFatal ==
  /\ \A k \in UseCalls :
       NoHandlerArg(ArgsOf(k)) \/ Unsupported(ArgsOf(k)) =>
         /\ phase = "fatal"
         /\ k = Len(regLog)
         /\ \A i \in DOMAIN routes : routes[i].Handler \notin FuncsIn(ArgsOf(k))
  /\ \A i \in DOMAIN routes : routes[i].Handler.kind \in HandlerKinds

\* C21 witness: after a registration that filled the table, a Use call with
\* an argument of an unsupported type ended the process.
C21_Witness ==
  /\ phase = "fatal"
  /\ Len(regLog) = 2 /\ regLog[2] > 0
  /\ Unsupported(ArgsOf(2))
  /\ FuncsIn(ArgsOf(2)) # {}
  /\ Len(routes) > 0

\* the last event of the request of task p is this step's Next(err)
JustNextErr(p) ==
  /\ Len(trace'[p]) = Len(trace[p]) + 1
  /\ trace'[p][Len(trace'[p])].ev = "nexterr"
\* a Next() of the request of task p found no further route: the scan it
\* started ran off the end of the table
RanOff(p) ==
  \E n \in At(p, "next") : \E e \in At(p, "exhaust") :
    /\ n < e
    /\ \A k \in (n + 1)..(e - 1) : trace[p][k].ev = "exam" /\ trace[p][k].x = "miss"

Extends == /\ Len(routes') >= Len(routes)
           /\ SubSeq(routes', 1, Len(routes)) = routes
\* this step is a step of the dispatch of a request
DispatchStep == Serving' # Serving

\* C23: every step leaves the routes already in the table in place, with
\* their content and order, and only adds routes behind them; a step of the
\* dispatch of a request leaves the table as it is.
C23_AppendOnly ==
  [][Extends /\ (DispatchStep => routes' = routes)]_vars

\* C23 witness: the table was built by a Use call and a Static call after it,
\* and a request that invoked a handler is over.
C23_Witness ==
  /\ Len(regLog) = 2 /\ regLog[1] > 0 /\ regLog[2] < 0
  /\ Len(routes) >= 2
  /\ routes[Len(routes)].Handler = StaticFn
  /\ pc[1] = "done"
  /\ Invokes(1) # {}

\* this step is the release of the Ctx of task p
Releases(p) == pc[p] # "idle" /\ pc'[p] = "idle"
\* the handlers of the request of task p that were invoked, and those that
\* have returned
Returned(p) == At(p, "ret")

\* C24: the Ctx of a request is put back once: it is in the pool at no time
\* while the request is in flight and keeps its transport handle, the step
\* that ends the request puts it into the pool, and no other step puts a Ctx
\* there; that step comes when dispatch has returned, every handler invoked,
\* nested ones included, having returned; so a handler runs only on a Ctx that
\* is not released.
C24_ReleasedOnceAfterDispatch ==
  /\ [](\A p \in Procs :
          /\ InFlight(p) => cx[p] \notin pool /\ Cx(p).RequestCtx = p
          /\ pc[p] = "done" =>
               /\ stack[p] = <<>>
               /\ Cardinality(Returned(p)) = Cardinality(Invokes(p)))
  /\ [][/\ \A p \in Procs :
             Releases(p) =>
               /\ pc[p] = "done"
               /\ pool' = pool \cup {cx[p]}
               /\ ctxs'[cx[p]] = releaseCtx(ctxs[cx[p]])
               /\ cx'[p] = 0
        /\ \A c \in pool' \ pool : \E p \in Procs : Releases(p) /\ cx[p] = c]_vars

\* C24 witness: one request is over and its Ctx is back in the pool, while
\* the handler of a nested continuation of another request runs on a Ctx that
\* is not in the pool.
C24_Witness ==
  \E p, q \in Procs :
    /\ pc[p] = "idle" /\ pool # {}
    /\ pc[q] = "handler" /\ Len(stack[q]) = 2
    /\ cx[q] \notin pool

\* the segments of a route path for which getRegex writes a capturing group,
\* left to right, and the parameter name such a segment stands for
GroupSegs(path) ==
  SelectSeq(Segs(path), LAMBDA g : g # <<>> /\ (g[1] = ":" \/ g[1] = "*"))
SegName(g) ==
  IF g[1] = "*" THEN S_star
  ELSE SelectSeq(g, LAMBDA c : c # ":" /\ c # "?")
\* the names of a route and the groups of its pattern agree in number and order
NamesMatchGroups(r) ==
  /\ Len(r.Params) = NumGroups(r.Regexp)
  /\ \A n \in DOMAIN r.Params :
       /\ n <= Len(GroupSegs(r.Path))
       /\ ToLower(r.Params[n]) = SegName(GroupSegs(r.Path)[n])

\* C25: every route of the table has as many parameter names as its compiled
\* pattern has capturing groups, and the n-th name is the name of the segment
\* of the n-th group.
C25_NamesMatchGroups ==
  \A i \in DOMAIN routes : NamesMatchGroups(routes[i])

\* the handler objects registered so far and how often each was registered
RegObjs == {h \in DOMAIN Hands : objs[h].hooks # <<>>}
Regs(h) == Cardinality({k \in DOMAIN objs[h].hooks : objs[h].hooks[k] = "Init"})
\* the verb tokens and the Route.Method each stands for
VerbTokens ==
  { <<<<"g","e","t">>, "GET">>, <<<<"p","o","s","t">>, "POST">>,
    <<<<"p","u","t">>, "PUT">>, <<<<"d","e","l","e","t","e">>, "DELETE">>,
    <<<<"p","a","t","c","h">>, "PATCH">>, <<<<"h","e","a","d">>, "HEAD">>,
    <<<<"a","l","l">>, "*">> }
TokensOf(t) == {v \in VerbTokens : BeginsWith(t, v[1])}
\* the verb routes whose handler is method m of object h
OpRoutes(h, m) ==
  {i \in DOMAIN routes : ~routes[i].isMiddleware /\ routes[i].Handler = OpOf(h, m.label)}
\* method m of object h has one verb route for each registration of h, with
\* the method of the token its transformed name begins with
RegisteredByToken(h, m) ==
  /\ Cardinality(OpRoutes(h, m)) = Regs(h)
  /\ \A i \in OpRoutes(h, m) :
       \E v \in TokensOf(toNamer(m.name)) :
         routes[i].Method = v[2] /\ (routes[i].isGet <=> v[2] = "GET")
HookLabels == {"Init", "Prefix", "Preload", "SetPrefix"}

\* C26 (as stated): a method of a registered handler object has a verb route
\* exactly if its transformed name begins with a verb token, and then with
\* the method of that token; the hooks have none.
C26_RegisteredIffVerbName ==
  \A h \in RegObjs : \A k \in DOMAIN Hands[h].methods :
    LET m == Hands[h].methods[k] IN
    /\ TokensOf(toNamer(m.name)) # {} => RegisteredByToken(h, m)
    /\ TokensOf(toNamer(m.name)) = {} => OpRoutes(h, m) = {}
    /\ m.label \in HookLabels => OpRoutes(h, m) = {}

\* C26 (amended): a method of a registered handler object has a verb route
\* exactly if it has the type func(*Ctx) and its transformed name begins with
\* a verb token, and then with the method of that token; a method of another
\* type has none whatever its name, and the hooks have none.
C26_RegisteredIffVerbNameAndCtxFn ==
  \A h \in RegObjs : \A k \in DOMAIN Hands[h].methods :
    LET m == Hands[h].methods[k] IN
    /\ m.ctxFn /\ TokensOf(toNamer(m.name)) # {} => RegisteredByToken(h, m)
    /\ ~m.ctxFn \/ TokensOf(toNamer(m.name)) = {} => OpRoutes(h, m) = {}
    /\ m.label \in HookLabels => OpRoutes(h, m) = {}

\* C26 witness: the object with an operation for every verb is registered:
\* its table holds a HEAD, a PATCH and an any-method route, and none for
\* Index or GetName.
C26_Witness ==
  /\ "full" \in RegObjs
  /\ \A v \in {"HEAD", "PATCH", "DELETE", "*"} :
       \E i \in DOMAIN routes :
         /\ ~routes[i].isMiddleware /\ routes[i].Method = v
         /\ routes[i].Handler.obj = "full"
  /\ \A i \in DOMAIN routes : routes[i].Handler.name \notin {"Index", "GetName"}

\* the hook calls of n registrations of an object: Init, then Prefix, each time
RECURSIVE InitThenPrefix(_)
InitThenPrefix(n) == IF n = 0 THEN <<>> ELSE InitThenPrefix(n - 1) \o <<"Init", "Prefix">>
\* the handler objects a Use call registers: those it comes to before it
\* fails, if it does; and how often the calls made so far registered object h
HandleArgs(args) ==
  {j \in DOMAIN args :
     /\ args[j].t = "handle"
     /\ \A x \in 1..(j - 1) : args[x].t \in {"string", "func", "handle"}}
TimesUsed(h) ==
  Cardinality(UNION {{<<k, j>> : j \in {x \in HandleArgs(ArgsOf(k)) : ArgsOf(k)[x].f = h}} :
                       k \in UseCalls})
\* the method of object h with this label
MethodOf(h, label) ==
  LET ms == Hands[h].methods
  IN ms[CHOOSE i \in DOMAIN ms : ms[i].label = label]
\* the path pushMethod gives a route registered with path p
PushedPath(p) == NormPath(LeadSlash(p))
\* the routes of the Preload hook and of the operations of object h
PreloadRoutes(h) == {i \in DOMAIN routes : routes[i].Handler = PreloadOf(h)}
OpsOf(h) ==
  {i \in DOMAIN routes : routes[i].Handler.kind = "op" /\ routes[i].Handler.obj = h}

\* C27: each registration of a handler object called Init once and read the
\* prefix after it; the Preload route and every operation route of the object
\* are registered under the prefix that Init set; and every operation route
\* stands behind the Preload route of its registration, with nothing but
\* operation routes of the object between the two.
C27_InitThenPrefixThenPreload ==
  \A h \in DOMAIN Hands :
    /\ objs[h].hooks = InitThenPrefix(TimesUsed(h))
    /\ Cardinality(PreloadRoutes(h)) = TimesUsed(h)
    /\ TimesUsed(h) > 0 => objs[h].prefix = Hands[h].prefix
    /\ \A i \in PreloadRoutes(h) :
         routes[i].isMiddleware /\ routes[i].Path = PushedPath(objs[h].prefix)
    /\ \A j \in OpsOf(h) :
         LET t == toNamer(MethodOf(h, routes[j].Handler.name).name)
         IN /\ routes[j].Path = PushedPath(fixURI(objs[h].prefix, t, VerbOf(t)))
            /\ \E i \in PreloadRoutes(h) :
                 /\ i < j
                 /\ \A x \in (i + 1)..(j - 1) : x \in OpsOf(h)

\* C27 witness: two handler objects were registered, one of them behind a
\* path argument; each has had one Init and one Prefix call, and the table
\* holds the operation routes of both.
C27_Witness ==
  /\ Len(regLog) = 2
  /\ TimesUsed("api") = 1 /\ TimesUsed("gate") = 1
  /\ objs["api"].hooks = <<"Init", "Prefix">>
  /\ OpsOf("api") # {} /\ OpsOf("gate") # {}
  /\ objs["api"].prefix # NewHand.prefix

(***************************************************************************)
(* A request dispatched alone: Core.handler, nextRoute and Ctx.Next run on *)
(* a Ctx and a response of their own. Alone(p) runs the steps that the     *)
(* history of task p lists, what its handlers chose to do included, and    *)
(* tells whether each is a step of such a dispatch.                        *)
(***************************************************************************)
\* Core.handler up to its call of nextRoute, on a Ctx that poolCtx.New made
AloneStart(p) ==
  [c |-> [assignCtx(ZeroCtx, p, req[p].method, req[p].path) EXCEPT
            !.Core = TRUE, !.path = NormPath(req[p].path)],
   r |-> FreshResp, st |-> <<>>, pc |-> "scan", ok |-> TRUE]

AloneTop(s) == s.st[Len(s.st)]
AlonePop(s) == SubSeq(s.st, 1, Len(s.st) - 1)
\* event e names the handler that is running
ByRunning(s, e) == s.pc = "handler" /\ AloneTop(s).route = e.i

\* one step of the dispatch: an iteration or the end of the loop of nextRoute,
\* or what the running handler does
AloneStep(s, e) ==
  LET bad == [s EXCEPT !.ok = FALSE] IN
  CASE e.ev = "exam" ->
         LET i == s.c.index + 1 IN
         IF ~(s.pc = "scan" /\ s.c.index < Len(routes) - 1 /\ e.i = i) THEN bad
         ELSE LET m == lookup(routes[i + 1], s.c)
              IN IF m.match # (e.x = "match") THEN bad
                 ELSE IF m.match
                      THEN [s EXCEPT !.c = [@ EXCEPT !.index = i, !.Route = <<i>>,
                                                     !.values = m.values],
                                     !.st = Append(@, NewFrame(i)),
                                     !.pc = "handler"]
                      ELSE [s EXCEPT !.c = [@ EXCEPT !.index = i]]
    [] e.ev = "exhaust" ->
         IF ~(s.pc = "scan" /\ ~(s.c.index < Len(routes) - 1) /\ e.i = s.c.index) THEN bad
         ELSE [s EXCEPT !.r = NotFoundIfEmpty(@),
                        !.pc = AfterLoop(s.st)]
    [] e.ev = "next" ->
         IF ~ByRunning(s, e) THEN bad
         ELSE [s EXCEPT !.c = Next0(@),
                        !.st = [@ EXCEPT ![Len(@)] = [@ EXCEPT !.calls = @ + 1]],
                        !.pc = "scan"]
    [] e.ev = "nexterr" ->
         IF ~ByRunning(s, e) THEN bad
         ELSE [s EXCEPT !.c = NextErr(@, e.x),
                        !.st = [@ EXCEPT ![Len(@)] = [@ EXCEPT !.errs = @ + 1]]]
    [] e.ev = "send" ->
         IF ~ByRunning(s, e) THEN bad
         ELSE [s EXCEPT !.r = [@ EXCEPT !.body =
                                 IF routes[e.i + 1].Handler.kind = "check" THEN "ok" ELSE "x"],
                        !.st = [@ EXCEPT ![Len(@)] = [@ EXCEPT !.sent = TRUE]]]
    [] e.ev = "ret" ->
         IF ~ByRunning(s, e) THEN bad
         ELSE [s EXCEPT !.r = IF etag THEN setETag(@, e.x = "hit") ELSE @,
                        !.st = AlonePop(s),
                        !.pc = AfterHandler(AlonePop(s))]
    [] OTHER -> bad

RECURSIVE AloneUpTo(_, _)
AloneUpTo(p, k) ==
  IF k = 1 THEN [AloneStart(p) EXCEPT !.ok = trace[p][1].ev = "acquire"]
  ELSE LET s == AloneUpTo(p, k - 1)
       IN IF s.ok THEN AloneStep(s, trace[p][k]) ELSE s
Alone(p) == AloneUpTo(p, Len(trace[p]))

\* C28: whatever the other task does meanwhile, what dispatch did for the
\* request of a task so far is what it does for that request when dispatched
\* alone with handlers that act the same: the same routes examined and
\* handlers invoked, the same response, and the same Ctx content and place in
\* the chain.
C28_SameAsAlone ==
  \A p \in Procs : InFlight(p) =>
    LET s == Alone(p)
    IN /\ s.ok
       /\ resp[p] = s.r
       /\ Cx(p) = s.c
       /\ stack[p] = s.st
       /\ pc[p] = s.pc

\* C28 witness: two requests are in flight, each has had handlers invoked and
\* a response written, and one of them runs on a Ctx another request used
\* before.
C28_Witness ==
  /\ \A p \in Procs :
       /\ InFlight(p)
       /\ Invokes(p) # {}
       /\ resp[p] # FreshResp
  /\ \E p \in Procs : trace[p][1].x = "pool"
  /\ req[1] # req[2]

\* the keys a handler may ask Params for: every name some route declares, and
\* one that none declares
Keys ==
  UNION {{routes[i].Params[n] : n \in DOMAIN routes[i].Params} : i \in DOMAIN routes}
    \cup {S_none}

\* C29: while a handler runs, be it of a middleware route, of an always-match
\* wildcard route or after a Next() it made has returned, Params(k) fails for
\* no key k.
C29_ParamsNeverFails ==
  \A p \in Procs : pc[p] = "handler" =>
    \A k \in Keys : ~Params(Cx(p), k).panic

\* C30: once a handler of a request has called Next(err), no route handler is
\* invoked for the rest of that request, whatever Next() calls follow.
C30_ErrorStateAbsorbing ==
  \A p \in Procs :
    \A e \in At(p, "nexterr") : \A k \in Invokes(p) : k < e

\* a handler is invoked after a Next(err) only through a Next() called after it
C30_InvokedOnlyThroughNext ==
  \A p \in Procs :
    \A e \in At(p, "nexterr") : \A k \in Invokes(p) :
      k > e => \E n \in At(p, "next") : e < n /\ n < k

\* the Ctx of task p holds the route of the handler on top of its stack and
\* the values that route's match gave
HoldsOwnRoute(p) ==
  /\ Cx(p).Route = <<Top(p).route>>
  /\ Cx(p).values = lookup(routes[Top(p).route + 1], Cx(p)).values

\* C31: while the code of a handler runs, also after a Next() it called has
\* returned, the Ctx holds that handler's own route and parameter values.
C31_OwnRouteWhileRunning ==
  \A p \in Procs : pc[p] = "handler" => HoldsOwnRoute(p)

\* a handler that has called neither Next() nor Next(err) runs on a Ctx that
\* holds its own route and values
C31_OwnRouteBeforeNext ==
  \A p \in Procs :
    pc[p] = "handler" /\ Top(p).calls + Top(p).errs = 0 => HoldsOwnRoute(p)

\* this step is the end of a scan of the request of task p that ran off the
\* table
JustExhausted(p) ==
  /\ Len(trace'[p]) = Len(trace[p]) + 1
  /\ trace'[p][Len(trace'[p])].ev = "exhaust"
\* this step is the return of a handler of task p that called no Next() and
\* wrote nothing
JustReturnedPlain(p) ==
  /\ pc[p] = "handler"
  /\ Len(stack'[p]) = Len(stack[p]) - 1
  /\ Top(p).calls = 0
  /\ ~Top(p).sent

\* no handler of the request of task p called Next() more than once
NextAtMostOnce(p) ==
  \A j, k \in At(p, "next") : trace[p][j].i = trace[p][k].i => j = k
\* the returns, in the trace of task p, of handlers that had called no Next()
\* and written nothing
PlainReturns(p) ==
  {k \in At(p, "ret") :
     \A j \in At(p, "next") \cup At(p, "send") : trace[p][j].i # trace[p][k].i}

\* C32: the status becomes 404 only in the step that ends an exhausted scan
\* while the response body is empty; an exhausted scan that finds a body
\* written leaves status and body as they are; the return of a matched
\* handler that called no Next() and wrote nothing produces no 404; and a
\* request in which some handler wrote, or returned without Next() and without
\* writing, and none called Next() twice, does not end with a 404.
C32_NotFoundOnlyAtEmptyExhaust ==
  /\ [][\A p \in Procs :
          /\ resp'[p].status = 404 /\ resp[p].status # 404
               => JustExhausted(p) /\ resp[p].body = ""
          /\ JustExhausted(p) /\ resp[p].body # "" => resp'[p] = resp[p]
          /\ JustReturnedPlain(p) /\ resp[p].status # 404 => resp'[p].status # 404]_vars
  /\ [](\A p \in Procs :
          /\ pc[p] = "done"
          /\ NextAtMostOnce(p)
          /\ At(p, "send") # {} \/ PlainReturns(p) # {}
          => resp[p].status # 404)

\* C32 witness: a request is over in which a handler wrote a body and called
\* Next(), the scan ran off the table, and status and body are as written; the
\* handler of an earlier route had called Next() and written nothing.
C32_Witness ==
  /\ pc[1] = "done"
  /\ \E e \in At(1, "exhaust") : trace[1][e].x = "written"
  /\ \E k \in At(1, "send") : \E n \in At(1, "next") : n < k
  /\ resp[1] = [status |-> 200, body |-> "x"]

\* v is a piece of s: it occurs in s somewhere (the empty string everywhere)
PieceOf(s, v) == \E i \in 1..(Len(s) + 1) : OccursAt(s, i, v)

\* C33: every parameter value a handler finds on its Ctx is a piece of the
\* normalised request path and holds no upper-case letter.
C33_ValuesFromNormalisedPath ==
  \A p \in Procs : pc[p] = "handler" =>
    \A n \in DOMAIN Cx(p).values :
      /\ PieceOf(ReqPath(p), Cx(p).values[n])
      /\ \A j \in DOMAIN Cx(p).values[n] : ~IsUpper(Cx(p).values[n][j])

\* C33 witness: a handler runs with a parameter value taken from a place of
\* the request URL that held an upper-case letter: the value is no piece of
\* the path as the client sent it.
C33_Witness ==
  /\ pc[1] = "handler"
  /\ \E n \in DOMAIN Cx(1).values :
       /\ Cx(1).values[n] # <<>>
       /\ ~PieceOf(req[1].path, Cx(1).values[n])

\* a Use call that names a handler object
HasHandle(args) == \E j \in DOMAIN args : args[j].t = "handle"
\* the middleware routes of the table whose handler is the function f
MiddlewareOf(f) ==
  {i \in DOMAIN routes : routes[i].isMiddleware /\ routes[i].Handler = f}
\* the Use calls made whose arguments are all of a supported type and name a
\* handler
GoodUseCalls ==
  {k \in UseCalls : ~Unsupported(ArgsOf(k)) /\ ~NoHandlerArg(ArgsOf(k))}

\* C34 (as stated): every handler function passed to a Use call has a
\* middleware route in the table, also when the call names a handler object.
C34_EveryFuncRegistered ==
  \A k \in GoodUseCalls : \A f \in FuncsIn(ArgsOf(k)) : MiddlewareOf(f) # {}

\* C34 (amended): every handler function passed to a Use call that names no
\* handler object has a middleware route in the table; a function passed in a
\* call that names a handler object has none.
C34_FuncRegisteredUnlessObject ==
  \A k \in GoodUseCalls : \A f \in FuncsIn(ArgsOf(k)) :
    MiddlewareOf(f) # {} <=> ~HasHandle(ArgsOf(k))

\* C34 witness: the application made a Use call with a function and a handler
\* object and one with functions only; the routes of the object are in the
\* table.
C34_Witness ==
  /\ phase = "serve"
  /\ \E k \in GoodUseCalls :
       /\ HasHandle(ArgsOf(k)) /\ FuncsIn(ArgsOf(k)) # {}
       /\ \E i \in DOMAIN routes : routes[i].Handler.kind = "Preload"
  /\ \E k \in GoodUseCalls : ~HasHandle(ArgsOf(k))

\* the handler functions of a Use call, in argument order
FuncSeq(args) ==
  LET fs == SelectSeq(args, LAMBDA a : a.t = "func")
  IN [j \in DOMAIN fs |-> Fn(fs[j].f)]
\* the Use calls made with handler functions only
FuncUseCalls == {k \in GoodUseCalls : ~HasHandle(ArgsOf(k))}
\* the table index of the route of the first function of Use call k
FirstOf(k) == SetMin(MiddlewareOf(FuncSeq(ArgsOf(k))[1]))
\* the routes of Use call k lie side by side from index b on, in argument
\* order, all middleware routes with the path the call gave
SideBySide(k, b) ==
  LET fs == FuncSeq(ArgsOf(k))
  IN \A j \in DOMAIN fs :
       /\ b + j - 1 \in DOMAIN routes
       /\ routes[b + j - 1].Handler = fs[j]
       /\ routes[b + j - 1].isMiddleware
       /\ routes[b + j - 1].Path = routes[b].Path
       /\ MiddlewareOf(fs[j]) = {b + j - 1}
\* the neighbours (i, i + 1) in the table that one Use call registered
Neighbours ==
  {ij \in (DOMAIN routes) \X (DOMAIN routes) :
     /\ ij[2] = ij[1] + 1
     /\ \E k \in FuncUseCalls :
          LET b == FirstOf(k)
          IN b <= ij[1] /\ ij[2] <= b + Len(FuncSeq(ArgsOf(k))) - 1}
\* the positions of the trace at which the handler of table index i called
\* Next()
NextsOf(p, i) == {n \in At(p, "next") : trace[p][n].i = i - 1}

\* C35 (as stated): the functions of Use(path, f1, ..., fn) are n middleware
\* routes side by side with the same path, in argument order; and f(i+1) is
\* invoked only after f(i) was invoked and has called Next().
C35_NextOfPredecessor ==
  /\ \A k \in FuncUseCalls : SideBySide(k, FirstOf(k))
  /\ \A ij \in Neighbours : \A p \in Procs : \A k \in InvokesOf(p, ij[2]) :
       \E j \in InvokesOf(p, ij[1]) : \E n \in NextsOf(p, ij[1]) : j < n /\ n < k

\* C35 (amended): the functions of Use(path, f1, ..., fn) are n middleware
\* routes side by side with the same path, in argument order; and f(i+1) is
\* invoked only after f(i) was invoked and some handler called Next() since.
C35_NextSincePredecessor ==
  /\ \A k \in FuncUseCalls : SideBySide(k, FirstOf(k))
  /\ \A ij \in Neighbours : \A p \in Procs : \A k \in InvokesOf(p, ij[2]) :
       \E j \in InvokesOf(p, ij[1]) : \E n \in At(p, "next") : j < n /\ n < k

\* C35 witness: of two functions one Use call registered, the first was
\* invoked and called Next(), and the second was invoked after that.
C35_Witness ==
  \E ij \in Neighbours :
    \E j \in InvokesOf(1, ij[1]) : \E n \in NextsOf(1, ij[1]) :
      \E k \in InvokesOf(1, ij[2]) : j < n /\ n < k

(***************************************************************************)
(* SpecLive: Spec with the request task running on: the goroutine of       *)
(* Core.handler is scheduled as long as it has a step to take, and a       *)
(* handler, which makes a bounded number of calls, comes to its return.    *)
(***************************************************************************)
DispatchStep1 ==
  \/ Scan(1)
  \/ Exhaust(1)
  \/ HNext(1)
  \/ \E e \in Errors : HNextErr(1, e)
  \/ HSend(1)
  \/ HReturn(1)

SpecLive == Init /\ [][Next]_vars /\ WF_vars(DispatchStep1)

\* C36: a request accepted comes to the end of its dispatch; on the way every
\* route examined has a higher index than the one examined before, and
\* neither the number of handler invocations nor the depth of nested Next()
\* calls exceeds the number of routes.
C36_DispatchTerminates ==
  /\ (pc[1] \in {"scan", "handler"}) ~> (pc[1] = "done")
  /\ [](\A p \in Procs :
          /\ \A j, k \in Exams(p) : j < k => trace[p][j].i < trace[p][k].i
          /\ Cardinality(Invokes(p)) <= Len(routes)
          /\ Len(stack[p]) <= Len(routes))

\* C36 witness: the dispatch of a request is over in which three handlers
\* were invoked, each from within the one before, and the innermost scan ran
\* off the table.
C36_Witness ==
  /\ pc[1] = "done"
  /\ \E a, b, c \in Invokes(1) : \E r \in At(1, "ret") :
       /\ a < b /\ b < c /\ c < r
       /\ \A k \in At(1, "ret") : r <= k
  /\ At(1, "exhaust") # {}

\* a path as the normalisation leaves it: not empty, "/" first, and the
\* normalisation applied once more changes nothing
Rooted(path) == path # <<>> /\ path[1] = "/" /\ NormPath(path) = path
\* the routes pushMethod registered: all but those of Static
Pushed == {i \in DOMAIN routes : routes[i].Handler.kind # "static"}

\* C37: the path of every route registered and the path of every request
\* being dispatched is not empty, starts with "/" and is left as it is by the
\* normalisation applied again.
C37_NormalisedPathsRooted ==
  /\ \A i \in Pushed : Rooted(routes[i].Path)
  /\ \A p \in Procs : InFlight(p) => Rooted(Cx(p).path)

\* the same for every route but the one registered with the path "//"
C37_RootedButAllSlashes ==
  /\ \A i \in Pushed : routes[i].Handler # Fn("f8") => Rooted(routes[i].Path)
  /\ \A p \in Procs : InFlight(p) => Rooted(Cx(p).path)

====
